---- MODULE Spec2Model ----
(***************************************************************************)
(* A model of the stasis guest library (overdrivenpotato/stasis).          *)
(*                                                                         *)
(*   Part G  the Global cell            rust/stasis/src/global.rs          *)
(*   Part R  the callback registry and the opcode surface                  *)
(*           rust/stasis-internals/src/{internal_callbacks,outgoing,       *)
(*           incoming}.rs, rust/stasis/src/lib.rs                          *)
(*   Part Q  the user-facing callback queue  rust/stasis/src/callbacks.rs  *)
(*   Part L  LazyId                          rust/stasis/src/callbacks.rs  *)
(*   Part E  the task executors     rust/stasis/src/futures/{v01,v02}.rs   *)
(*   Part S  a task woken by listeners of the callback queue               *)
(*   Part O  the outbound opcodes, the startup handshake, the prelude      *)
(*           rust/stasis-internals/src/outgoing.rs, rust/stasis/src/lib.rs *)
(*   Part M  the heap regions that cross the guest/host boundary           *)
(*           rust/stasis-internals/src/{incoming,data,outgoing}.rs         *)
(*   Part K  the earlier callback manager    rust/src/callbacks.rs         *)
(*   Part C  the byte codec and the round trip of a call                   *)
(*           rust/stasis-internals/src/{data,outgoing}.rs                  *)
(*                                                                         *)
(* Every part has its own next-state relation over the shared variables;   *)
(* a part leaves the variables of the other parts unchanged.               *)
(***************************************************************************)
EXTENDS Integers, Sequences, FiniteSets, TLC

(***************************************************************************)
(* Bounds of the model.                                                    *)
(***************************************************************************)
\* threads that use the Global cell
GThreads == 2
\* lock / increment / drop iterations of one thread (the M of no_race_condition)
MaxIter == 2
\* Module operations the threads start from their main bodies, in total
MaxOps == 3
\* callbacks the registry is asked to hold (caps Callbacks.current)
MaxCallbacks == 2
\* inbound CALLBACK dispatches nested inside one another on one thread
MaxDepth == 2
\* ids the callback queue creates
MaxIds == 1
\* queue operations the threads start from their main bodies, in total
MaxQOps == 4
\* LazyId values made by Callbacks::lazy
MaxLazy == 2
\* get_or_init calls, in total
MaxLazyCalls == 3
\* the value of Inner.current when the first LazyId is made is at most this
MaxLazyBase == 1
\* tasks the executor is asked to spawn (caps the counter of the Pool)
MaxTasks == 2
\* spawn and wake calls the threads start from their main bodies, in total
MaxEOps == 3
\* the pending steps of the task of the completion scenario: 0..MaxPending
MaxPending == 3
\* the host ticks of the completion scenario that find no listener armed
MaxIdleTicks == 2
\* Module and prelude calls started from the main bodies (Part O)
MaxOOps == 4
\* calls made by the host and by the main body of the guest (Part M)
MaxMOps == 3
\* inbound CALLBACK dispatches in progress at once (Part M)
MaxNest == 2
\* the spare capacity a serialized String may have
MaxSlack == 2
MaxKIds == 2
MaxKOps == 5
MaxSliceLen == 5

VARIABLES
    \* ---- Part G: Global<i32> ------------------------------------------
    target,       \* the build: "wasm" (one thread) or "native" (threads)
    once,         \* Global.once: "INCOMPLETE" | "RUNNING" | "COMPLETE"
    inner,        \* Global.inner: "None" | "Some"
    gvalue,       \* the T inside the Mutex<T> (T = i32, Default = 0)
    mlocked,      \* the inner Mutex is locked
    mpoisoned,    \* the inner Mutex is poisoned (a holder panicked)
    gpc,          \* gpc[t]: position of thread t
    ghold,        \* ghold[t]: number of GlobalLock guards thread t owns
    giter,        \* giter[t]: completed lock/increment/drop iterations
    gtmp,         \* gtmp[t]: the value read by `*lock += 1` / is_none()
    initRuns,     \* how many times T::default() has run (history)
    \* ---- Part R: registry, outgoing, incoming --------------------------
    registry,     \* the crate whose registry runs: "stasis-internals"
                  \* (rust/stasis-internals) or "rust-stasis"
    hlock,        \* HANDLER mutex: 0 when free, else the holding thread
    hpoisoned,    \* HANDLER mutex is poisoned
    current,      \* Callbacks.current
    registered,   \* Callbacks.registered: id -> the wrapped closure
    rstack,       \* rstack[t]: the call stack of thread t (top is last)
    rops,         \* Module operations started from the main bodies so far
    hostKnown,    \* callback ids the host received through REGISTER_CB
    issued,       \* ids returned by Callbacks::register, in order (history)
    rret,         \* rret[t]: what the last Module::call of t returned
    \* ---- Part Q: Callbacks<T>, the user-facing callback queue ----------
    qlock,        \* the mutex of the Global<Inner<T>>: 0 or the holder
    qcurrent,     \* Inner.current
    qmap,         \* Inner.map: CallbackId -> [notify, stack]
    qstack,       \* qstack[t]: the listeners thread t is running (top last)
    qops,         \* queue operations started from the main bodies so far
    qnpush,       \* values pushed so far; the next push pushes qnpush + 1
    qnlisten,     \* listeners installed so far (gives each one a serial)
    qpushed,      \* qpushed[id]: the values push(id, _) was called with
    qpopped,      \* qpopped[id]: the values Inner::pop(id) returned
    qfired,       \* serials of the listeners invoked, in order (history)
    qhandled,     \* qhandled[id]: the values the handler of on(id) received
    qinstalled,   \* qinstalled[lid]: the id, closure and API call of the
                  \* listener with serial lid (history)
    \* ---- Part L: LazyId -------------------------------------------------
    lzcurrent,    \* Inner.current of the Callbacks that makes the LazyIds
    lazies,       \* lazies[i]: the i-th LazyId, [id, initialized]
    lzmade,       \* lzmade[i]: the id Callbacks::lazy gave lazies[i] (history)
    lzcalls,      \* get_or_init calls: [lz, setup] (history)
    lzruns,       \* setup closures that ran: [lz, setup, arg, call] (history)
    lzrets,       \* lzrets[c]: what call c of lzcalls returned (history)
    \* ---- Part E: the task executor (futures/v01.rs, futures/v02.rs) ------
    eversion,     \* the executor in use: "v01" or "v02"
    plock,        \* the mutex of POOL: 0 when free, else the holding thread
    pcounter,     \* Pool.counter (v01), Pool.current (v02)
    futures,      \* Pool.futures: id -> the task, [kind, step]
    estack,       \* estack[t]: the call stack of thread t (top is last)
    eops,         \* spawn and wake calls started from the main bodies so far
    espawned,     \* ids given out by spawn, in order (history)
    edone,        \* ids whose task returned Ready or Err (history)
    epolls,       \* epolls[id]: progress steps started for id (history)
    \* ---- Part S: a task woken by listeners of the callback queue -------
    spending,     \* N: the steps of the task that return Pending
    scb,          \* the CallbackId the task listens on (0: not created)
    sfired,       \* host ticks whose push fired a listener so far
    sidle,        \* host ticks whose push found no listener so far
    \* ---- Part O: the outbound opcodes and the startup handshake ---------
    latch,        \* *STASIS_CALLBACK_REGISTERED
    latchlock,    \* its mutex: 0 when free, else the holding thread
    opc,          \* opc[t]: position of thread t
    othen,        \* othen[t]: the caller of create_module, "new" | "prelude"
    modules,      \* the ids of the Module handles the guest holds
    nextmod,      \* the host's next module id
    otrace,       \* the opcodes of the __stasis_call calls, in order
    oops,         \* Module and prelude calls started so far
    pronce,       \* PRELUDE.once
    prlock,       \* the mutex of PRELUDE: 0 when free, else the holder
    prmod,        \* the id of the Module of the Prelude (-1: none)
    prdepth,      \* prdepth[t]: the prelude calls of thread t that wait
                  \* in the host below the one that runs
    \* ---- Part M: the heap regions that cross the guest/host boundary ----
    mregions,     \* mregions[p]: the region allocated p-th; p is its address
    mstack,       \* the calls in progress on the one thread (top is last)
    mlast,        \* the last inbound call that returned: [op, ret], and
                  \* n, the number of inbound calls that have returned
    mfaults,      \* the invalid deallocations so far (history)
    mdone,        \* the CALLBACK dispatches that returned (history)
    mcalled,      \* the CALL_FN calls that returned (history)
    mops,         \* calls started by the host or the main body so far
    \* ---- Part K: the callback manager of rust/src/callbacks.rs ----------
    kcounter,     \* Callbacks.counter
    kmap,         \* Callbacks.map: id -> Waiting(f) | Ready(t)
    kstack,       \* the Callbacks::call in progress (top is last)
    kvals,        \* values handed to Callbacks::call so far
    klog,         \* the operations that returned, in order (history)
    \* ---- Part C: the byte codec and the return path of CALL_FN ---------
    cin,          \* the inputs: [n, len, slice, val, hdr, pay]
    cpc,          \* the next step of the run
    cres          \* what the steps so far have produced

gvars == <<target, once, inner, gvalue, mlocked, mpoisoned, gpc, ghold, giter,
           gtmp, initRuns>>

rvars == <<registry, hlock, hpoisoned, current, registered, rstack, rops, hostKnown,
           issued, rret>>

qvars == <<qlock, qcurrent, qmap, qstack, qops, qnpush, qnlisten, qpushed,
           qpopped, qfired, qhandled, qinstalled>>

lvars == <<lzcurrent, lazies, lzmade, lzcalls, lzruns, lzrets>>

evars == <<eversion, plock, pcounter, futures, estack, eops, espawned, edone,
           epolls>>

svars == <<spending, scb, sfired, sidle>>

ovars == <<latch, latchlock, opc, othen, modules, nextmod, otrace, oops,
           pronce, prlock, prmod, prdepth>>

mvars == <<mregions, mstack, mlast, mfaults, mdone, mcalled, mops>>

kvars == <<kcounter, kmap, kstack, kvals, klog>>

cvars == <<cin, cpc, cres>>

vars ==
    <<gvars, rvars, qvars, lvars, evars, svars, ovars, mvars, kvars, cvars>>

\* what the steps of one part leave alone
notG ==
    <<rvars, qvars, lvars, evars, svars, ovars,
      mvars, kvars, cvars>>
notR ==
    <<registry, gvars, qvars, lvars, evars, svars,
      ovars, mvars, kvars, cvars>>
notQ ==
    <<gvars, rvars, lvars, evars, svars, ovars,
      mvars, kvars, cvars>>
notL ==
    <<gvars, rvars, qvars, evars, svars, ovars,
      mvars, kvars, cvars>>
notE ==
    <<gvars, rvars, qvars, lvars, svars, ovars,
      mvars, kvars, cvars>>
notS ==
    <<gvars, rvars, lvars, ovars, mvars, kvars,
      cvars>>
notOP ==
    <<gvars, rvars, qvars, lvars, evars, svars,
      mvars, kvars, cvars>>
notO == <<notOP, prdepth>>
notM ==
    <<gvars, rvars, qvars, lvars, evars, svars,
      ovars, kvars, cvars>>
notC == <<gvars, rvars, qvars, lvars, evars, svars, ovars, mvars, kvars>>
notK ==
    <<gvars, rvars, qvars, lvars, evars, svars,
      ovars, mvars, cvars>>

(***************************************************************************)
(* Part G. The Global cell.                                                *)
(***************************************************************************)
GThreadSet == 1..GThreads

\* The threads the build can run: the WebAssembly guest has one thread.
GRunnable(t) == target = "native" \/ t = 1

\* std::sync::Once::call_once: the caller that may run the closure.
OnceMayEnterAny(st) == st \in {"INCOMPLETE", "RUNNING"}
OnceMayEnter(st) == st = "INCOMPLETE"

\* std::sync::Mutex::lock by a thread that does not hold the mutex.
MutexFreeAlways(locked) == TRUE
MutexFree(locked) == ~locked

\* Mutex::lock by the thread that already holds it: std leaves the outcome
\* unspecified ("might panic or deadlock"); the WebAssembly std panics
\* ("If this is called recursively in WebAssembly, it will panic").
RelockOutcomesDeadlock(tg) == {"deadlock"}
RelockOutcomes(tg) ==
    IF tg = "wasm" THEN {"panic"} ELSE {"panic", "deadlock"}

\* A panic of thread t: unwinding drops the guard it owns, which poisons
\* and unlocks the mutex.
GPanic(t) ==
    /\ gpc' = [gpc EXCEPT ![t] = "panicked"]
    /\ IF ghold[t] > 0
         THEN /\ mlocked' = FALSE
              /\ mpoisoned' = TRUE
              /\ ghold' = [ghold EXCEPT ![t] = 0]
         ELSE UNCHANGED <<mlocked, mpoisoned, ghold>>

\* Global::lock is entered (by `*NUM.lock() += 1`, or again by a thread that
\* still owns a guard: the recursive lock).
lock(t) ==
    /\ GRunnable(t)
    /\ UNCHANGED notG
    /\ \/ gpc[t] = "idle" /\ giter[t] < MaxIter
       \/ gpc[t] = "held"
    /\ gpc' = [gpc EXCEPT ![t] = "call_once"]
    /\ UNCHANGED <<target, once, inner, gvalue, mlocked, mpoisoned, ghold,
                   giter, gtmp, initRuns>>

\* ensure_exists: self.once.call_once(..) when the Once is already complete.
call_once_done(t) ==
    /\ GRunnable(t)
    /\ UNCHANGED notG
    /\ gpc[t] = "call_once"
    /\ once = "COMPLETE"
    /\ gpc' = [gpc EXCEPT ![t] = "clone"]
    /\ UNCHANGED <<target, once, inner, gvalue, mlocked, mpoisoned, ghold,
                   giter, gtmp, initRuns>>

\* ensure_exists: call_once makes this caller the one that runs the closure;
\* a caller that finds the Once RUNNING blocks (no step).
call_once_enter(t) ==
    /\ GRunnable(t)
    /\ UNCHANGED notG
    /\ gpc[t] = "call_once"
    /\ once # "COMPLETE"
    /\ OnceMayEnter(once)
    /\ once' = "RUNNING"
    /\ gpc' = [gpc EXCEPT ![t] = "init_check"]
    /\ UNCHANGED <<target, inner, gvalue, mlocked, mpoisoned, ghold, giter,
                   gtmp, initRuns>>

\* the closure of ensure_exists: `if (*ptr).is_none()`
init_check(t) ==
    /\ GRunnable(t)
    /\ UNCHANGED notG
    /\ gpc[t] = "init_check"
    /\ gtmp' = [gtmp EXCEPT ![t] = IF inner = "None" THEN 1 ELSE 0]
    /\ gpc' = [gpc EXCEPT ![t] = "init_assign"]
    /\ UNCHANGED <<target, once, inner, gvalue, mlocked, mpoisoned, ghold,
                   giter, initRuns>>

\* the closure of ensure_exists: `*ptr = Some(Arc::new(Mutex::new(T::default())))`
init_assign(t) ==
    /\ GRunnable(t)
    /\ UNCHANGED notG
    /\ gpc[t] = "init_assign"
    /\ IF gtmp[t] = 1
         THEN /\ inner' = "Some"
              /\ gvalue' = 0
              /\ mlocked' = FALSE
              /\ mpoisoned' = FALSE
              /\ initRuns' = initRuns + 1
         ELSE UNCHANGED <<inner, gvalue, mlocked, mpoisoned, initRuns>>
    /\ gpc' = [gpc EXCEPT ![t] = "once_complete"]
    /\ UNCHANGED <<target, once, ghold, giter, gtmp>>

\* call_once returns: the Once becomes COMPLETE and releases the waiters.
once_complete(t) ==
    /\ GRunnable(t)
    /\ UNCHANGED notG
    /\ gpc[t] = "once_complete"
    /\ once' = "COMPLETE"
    /\ gpc' = [gpc EXCEPT ![t] = "clone"]
    /\ UNCHANGED <<target, inner, gvalue, mlocked, mpoisoned, ghold, giter,
                   gtmp, initRuns>>

\* Global::lock: `(*ptr).clone()` and `opt.unwrap()`
clone_inner(t) ==
    /\ GRunnable(t)
    /\ UNCHANGED notG
    /\ gpc[t] = "clone"
    /\ IF inner = "Some"
         THEN /\ gpc' = [gpc EXCEPT ![t] = "mutex_lock"]
              /\ UNCHANGED <<mlocked, mpoisoned, ghold>>
         ELSE GPanic(t)
    /\ UNCHANGED <<target, once, inner, gvalue, giter, gtmp, initRuns>>

\* GlobalLock::new: `(*ptr).lock().unwrap()` by a thread that owns no guard;
\* it blocks (no step) while the mutex is locked.
GlobalLock_new(t) ==
    /\ GRunnable(t)
    /\ UNCHANGED notG
    /\ gpc[t] = "mutex_lock"
    /\ ghold[t] = 0
    /\ MutexFree(mlocked)
    /\ IF mpoisoned
         THEN GPanic(t)
         ELSE /\ mlocked' = TRUE
              /\ ghold' = [ghold EXCEPT ![t] = 1]
              /\ gpc' = [gpc EXCEPT ![t] = "held"]
              /\ UNCHANGED mpoisoned
    /\ UNCHANGED <<target, once, inner, gvalue, giter, gtmp, initRuns>>

\* GlobalLock::new by the thread that already owns the guard.
GlobalLock_new_recursive(t) ==
    /\ GRunnable(t)
    /\ UNCHANGED notG
    /\ gpc[t] = "mutex_lock"
    /\ ghold[t] > 0
    /\ \E o \in RelockOutcomes(target) :
         IF o = "panic"
           THEN GPanic(t)
           ELSE /\ gpc' = [gpc EXCEPT ![t] = "self_deadlock"]
                /\ UNCHANGED <<mlocked, mpoisoned, ghold>>
    /\ UNCHANGED <<target, once, inner, gvalue, giter, gtmp, initRuns>>

\* `*lock += 1`, the read half (DerefMut on the guard)
increment_read(t) ==
    /\ GRunnable(t)
    /\ UNCHANGED notG
    /\ gpc[t] = "held"
    /\ gtmp' = [gtmp EXCEPT ![t] = gvalue]
    /\ gpc' = [gpc EXCEPT ![t] = "write"]
    /\ UNCHANGED <<target, once, inner, gvalue, mlocked, mpoisoned, ghold,
                   giter, initRuns>>

\* `*lock += 1`, the write half
increment_write(t) ==
    /\ GRunnable(t)
    /\ UNCHANGED notG
    /\ gpc[t] = "write"
    /\ gvalue' = gtmp[t] + 1
    /\ gpc' = [gpc EXCEPT ![t] = "drop"]
    /\ UNCHANGED <<target, once, inner, mlocked, mpoisoned, ghold, giter,
                   gtmp, initRuns>>

\* Drop for GlobalLock: the guard, then the Arc.
GlobalLock_drop(t) ==
    /\ GRunnable(t)
    /\ UNCHANGED notG
    /\ gpc[t] = "drop"
    /\ mlocked' = FALSE
    /\ ghold' = [ghold EXCEPT ![t] = 0]
    /\ giter' = [giter EXCEPT ![t] = giter[t] + 1]
    /\ gpc' = [gpc EXCEPT ![t] = "idle"]
    /\ UNCHANGED <<target, once, inner, gvalue, mpoisoned, gtmp, initRuns>>

(***************************************************************************)
(* Part R. The callback registry (internal_callbacks.rs), the outbound     *)
(* call surface (outgoing.rs), the inbound dispatcher (incoming.rs) and    *)
(* the host that sits between them.                                        *)
(***************************************************************************)
RThreadSet == {1, 2}

\* User values that cross the boundary ("unit" is Rust's `()`).
Values == {"abc", "ABC", "unit"}
CallArgs == {"abc"}
Upper(v) == IF v = "abc" THEN "ABC" ELSE v

\* serde_json::to_string / from_str on these values: `()` is the text null,
\* a string is the quoted string.
ToJson(v) == IF v = "unit" THEN "null" ELSE "\"" \o v \o "\""
FromJson(s) ==
    IF s = "null" THEN "unit" ELSE CHOOSE v \in Values : ToJson(v) = s

\* the null pointer, as a returned *mut u8
NULLPTR == "0x0"

\* The user closures of the model:
\*   echo       calls the host function uppercase with its argument and
\*              returns the result (scenario S4)
\*   relay      calls the host function run_echo with its argument and
\*              returns the result (the host may dispatch a callback again)
\*   registrar  registers a further callback and returns ()
\*   done       returns ()
Kinds == {"echo", "relay", "registrar", "done"}
\* the closures the main body registers (done is what registrar registers)
MainKinds == {"echo", "relay", "registrar"}

\* The host functions of the model:
\*   uppercase  returns its argument in upper case
\*   run_echo   calls a guest callback with its argument, synchronously, and
\*              returns what the callback returned
HostFns == {"uppercase", "run_echo"}

NewFrame(fn, pc) ==
    [fn |-> fn, pc |-> pc, id |-> -1, kind |-> "", name |-> "", arg |-> "",
     ret |-> "", cb |-> -1, guard |-> FALSE]

Top(s) == s[Len(s)]
PopF(s) == SubSeq(s, 1, Len(s) - 1)
SetTop(s, f) == [s EXCEPT ![Len(s)] = f]

\* the callee on top of s returns val to its caller
ReturnTo(s, val) ==
    IF Len(s) = 1
      THEN <<>>
      ELSE SetTop(PopF(s), [Top(PopF(s)) EXCEPT !.pc = "ret", !.ret = val])

TopIs(t, fn, pc) ==
    /\ rstack[t] # <<>>
    /\ Top(rstack[t]).fn = fn
    /\ Top(rstack[t]).pc = pc

\* inbound CALLBACK dispatches that are on the stack s
CbDepth(s) == Cardinality({i \in 1..Len(s) : s[i].fn = "callback"})

\* registrations that have started and have not yet taken their id
PendingRegs ==
    Cardinality({t \in RThreadSet : TopIs(t, "register_callback", "register")})

MayRegister == current + PendingRegs < MaxCallbacks

\* A panic of thread t: unwinding drops the HANDLER guard if t holds it,
\* which poisons and unlocks the mutex; the thread ends.
RPanic(t) ==
    /\ rstack' = [rstack EXCEPT
                    ![t] = SetTop(@, [Top(@) EXCEPT !.pc = "panicked"])]
    /\ IF hlock = t
         THEN hlock' = 0 /\ hpoisoned' = TRUE
         ELSE UNCHANGED <<hlock, hpoisoned>>

\* `HANDLER.lock()` by the thread that holds HANDLER already.
RRelock(t) ==
    \E o \in RelockOutcomes("native") :
        IF o = "panic"
          THEN RPanic(t)
          ELSE /\ rstack' = [rstack EXCEPT
                     ![t] = SetTop(@, [Top(@) EXCEPT !.pc = "self_deadlock"])]
               /\ UNCHANGED <<hlock, hpoisoned>>

\* Callbacks::register: the returned id, the counter and the map after it.
CallbacksRegisterNoIncrement(cur, reg, f) ==
    [id |-> cur, current |-> cur, registered |-> (cur :> f) @@ reg]
CallbacksRegisterClear(cur, reg, f) ==
    [id |-> cur, current |-> cur + 1, registered |-> (cur :> f)]
CallbacksRegisterNoInsert(cur, reg, f) ==
    [id |-> cur, current |-> cur + 1, registered |-> reg]
CallbacksRegister(cur, reg, f) ==
    [id |-> cur, current |-> cur + 1, registered |-> (cur :> f) @@ reg]

\* internal_callbacks::call: the holder of HANDLER once `drop(guard)` has run,
\* i.e. at the moment `f(args)` is invoked (0: nobody).
GuardKept(t) == t
GuardDropped(t) == 0

\* The two registries. That of rust-stasis keeps its closures in a
\* `HashMap<u32, Box<Fn(String) -> String>>` inside a Global: its call runs
\* `let callbacks = HANDLER.lock();` and `callbacks.call(id, args)`, which
\* invokes `f(args)` through the guard; the guard is dropped when call
\* returns. It has no `drop(guard)` before the closure.
Registries == {"stasis-internals", "rust-stasis"}
CallGuardAlwaysDropped(reg, t) == 0
CallGuard(reg, t) == IF reg = "rust-stasis" THEN t ELSE GuardDropped(t)

\* internal_callbacks::call: `guard.registered.get(&id).cloned()`, None when
\* the id is not a key of the map
NoClosure == "None"
CallLookupOrDone(reg, id) == IF id \in DOMAIN reg THEN reg[id] ELSE "done"
CallLookup(reg, id) == IF id \in DOMAIN reg THEN reg[id] ELSE NoClosure

\* internal_callbacks::call: the text null is None, any other text is Some.
CallOptionAlwaysSome(s) == s
CallOption(s) == IF s = "null" THEN "None" ELSE s

\* incoming::callback: None is the null pointer, Some(s) is the address of
\* a fresh header of s (the model names the header by the text it leads to).
CallbackPtr(opt) == IF opt = "None" THEN NULLPTR ELSE opt

\* outgoing::call: a null return is the text null, any other return is the
\* header of the returned text; the text is then decoded.
CallValue(ret) == IF ret = NULLPTR THEN "null" ELSE ret
CallDecode(ret) == FromJson(CallValue(ret))

\* the value a host function hands back: JSON null is the null pointer
HostPtr(text) == IF text = "null" THEN NULLPTR ELSE text

\* outgoing::call up to `__stasis_call(opcode::CALL_FN, ptr, len)`: the
\* frame of a call whose payload {id, name, args} is with the host.
CallFrame(n, a) ==
    [NewFrame("call", "host") EXCEPT !.name = n, !.arg = ToJson(a)]

\* ---- the main body of a thread ---------------------------------------

\* Module::register_callback(name, f) is called from the main body.
Module_register_callback(t) ==
    /\ UNCHANGED notR
    /\ rstack[t] = <<>>
    /\ rops < MaxOps
    /\ MayRegister
    /\ \E k \in MainKinds :
         rstack' = [rstack EXCEPT
            ![t] = <<[NewFrame("register_callback", "register")
                         EXCEPT !.kind = k]>>]
    /\ rops' = rops + 1
    /\ UNCHANGED <<hlock, hpoisoned, current, registered, hostKnown, issued,
                   rret>>

\* Module::call(name, args) is called from the main body and emits CALL_FN.
Module_call(t) ==
    /\ UNCHANGED notR
    /\ rstack[t] = <<>>
    /\ rops < MaxOps
    /\ \E n \in HostFns, a \in CallArgs :
         rstack' = [rstack EXCEPT ![t] = <<CallFrame(n, a)>>]
    /\ rops' = rops + 1
    /\ UNCHANGED <<hlock, hpoisoned, current, registered, hostKnown, issued,
                   rret>>

\* ---- outgoing::register_callback and internal_callbacks::register ------

\* internal_callbacks::register: `HANDLER.lock().unwrap()` (blocks, with no
\* step, while another thread holds HANDLER), `guard.register(..)`, and the
\* guard is dropped as the function returns the id.
register(t) ==
    /\ UNCHANGED notR
    /\ TopIs(t, "register_callback", "register")
    /\ IF hlock = t
         THEN RRelock(t) /\ UNCHANGED <<current, registered, issued>>
         ELSE /\ hlock = 0
              /\ IF hpoisoned
                   THEN RPanic(t) /\ UNCHANGED <<current, registered, issued>>
                   ELSE LET f == Top(rstack[t])
                            r == CallbacksRegister(current, registered, f.kind)
                        IN  /\ current' = r.current
                            /\ registered' = r.registered
                            /\ issued' = Append(issued, r.id)
                            /\ rstack' = [rstack EXCEPT
                                  ![t] = SetTop(@, [f EXCEPT !.pc = "emit",
                                                             !.id = r.id])]
                            /\ UNCHANGED <<hlock, hpoisoned>>
    /\ UNCHANGED <<rops, hostKnown, rret>>

\* outgoing::register_callback: `__stasis_call(opcode::REGISTER_CB, ..)`
\* with the payload {module, callback, name}; the host now knows the id.
register_callback_emit(t) ==
    /\ UNCHANGED notR
    /\ TopIs(t, "register_callback", "emit")
    /\ hostKnown' = hostKnown \cup {Top(rstack[t]).id}
    /\ rstack' = [rstack EXCEPT ![t] = ReturnTo(@, "unit")]
    /\ UNCHANGED <<hlock, hpoisoned, current, registered, rops, issued, rret>>

\* ---- the host, and the return path of outgoing::call -------------------

\* outgoing::call returns v (decoded from what the host returned) to its
\* caller: the main body (rret) or the closure that called.
CallReturns(t, v) ==
    LET f == Top(rstack[t])
    IN  /\ rstack' = [rstack EXCEPT ![t] = ReturnTo(@, v)]
        /\ rret' = IF Len(rstack[t]) = 1
                     THEN [rret EXCEPT ![t] = [name |-> f.name,
                              arg |-> FromJson(f.arg), cb |-> f.cb, val |-> v]]
                     ELSE rret

\* The host function returns without calling back: uppercase always does,
\* run_echo when it has no callback to call (or the nesting bound of the
\* model is reached), and then returns null. outgoing::call decodes.
host_return(t) ==
    /\ UNCHANGED notR
    /\ TopIs(t, "call", "host")
    /\ LET f == Top(rstack[t])
       IN  /\ \/ f.name = "uppercase"
              \/ hostKnown = {}
              \/ CbDepth(rstack[t]) >= MaxDepth
           /\ CallReturns(t, CallDecode(
                 IF f.name = "uppercase"
                   THEN HostPtr(ToJson(Upper(FromJson(f.arg))))
                   ELSE NULLPTR))
    /\ UNCHANGED <<hlock, hpoisoned, current, registered, rops, hostKnown,
                   issued>>

\* run_echo calls the dispatcher with opcode CALLBACK for an id it was given
\* by REGISTER_CB: incoming::callback reads the descriptor and the args.
host_dispatch(t) ==
    /\ UNCHANGED notR
    /\ TopIs(t, "call", "host")
    /\ Top(rstack[t]).name = "run_echo"
    /\ CbDepth(rstack[t]) < MaxDepth
    /\ \E id \in hostKnown :
         LET f == Top(rstack[t])
         IN  rstack' = [rstack EXCEPT
                ![t] = Append(SetTop(@, [f EXCEPT !.pc = "wait", !.cb = id]),
                              [NewFrame("callback", "call")
                                  EXCEPT !.id = id, !.arg = f.arg])]
    /\ UNCHANGED <<hlock, hpoisoned, current, registered, rops, hostKnown,
                   issued, rret>>

\* A host that calls the dispatcher with opcode CALLBACK and an id that is
\* not in the registry (no REGISTER_CB gave it that id).
host_dispatch_unknown(t) ==
    /\ UNCHANGED notR
    /\ TopIs(t, "call", "host")
    /\ Top(rstack[t]).name = "run_echo"
    /\ CbDepth(rstack[t]) < MaxDepth
    /\ \E id \in (0..MaxCallbacks) \ DOMAIN registered :
         LET f == Top(rstack[t])
         IN  rstack' = [rstack EXCEPT
                ![t] = Append(SetTop(@, [f EXCEPT !.pc = "wait", !.cb = id]),
                              [NewFrame("callback", "call")
                                  EXCEPT !.id = id, !.arg = f.arg])]
    /\ UNCHANGED <<hlock, hpoisoned, current, registered, rops, hostKnown,
                   issued, rret>>

\* run_echo returns what the callback returned; outgoing::call decodes.
call_return(t) ==
    /\ UNCHANGED notR
    /\ TopIs(t, "call", "ret")
    /\ CallReturns(t, CallDecode(Top(rstack[t]).ret))
    /\ UNCHANGED <<hlock, hpoisoned, current, registered, rops, hostKnown,
                   issued>>

\* ---- incoming::callback and internal_callbacks::call -------------------

\* internal_callbacks::call up to `f(args)`: `HANDLER.lock().unwrap()`
\* (blocks, with no step, while another thread holds HANDLER),
\* `registered.get(&id).cloned().expect(..)`, `drop(guard)`, and the wrapper
\* built by register decodes the argument and starts the user closure.
call(t) ==
    /\ UNCHANGED notR
    /\ TopIs(t, "callback", "call")
    /\ IF hlock = t
         THEN RRelock(t)
         ELSE /\ hlock = 0
              /\ LET f == Top(rstack[t])
                     c == CallLookup(registered, f.id)
                 IN  IF hpoisoned
                       THEN RPanic(t)
                       ELSE IF c = NoClosure
                       THEN \* `.expect(..)` panics with the guard alive
                            /\ rstack' = [rstack EXCEPT
                                  ![t] = SetTop(@, [f EXCEPT
                                                      !.pc = "panicked"])]
                            /\ hlock' = 0
                            /\ hpoisoned' = TRUE
                       ELSE /\ hlock' = CallGuard(registry, t)
                            /\ rstack' = [rstack EXCEPT
                                  ![t] = Append(
                                     SetTop(@, [f EXCEPT !.pc = "wait",
                                        !.kind = c,
                                        !.guard = (CallGuard(registry, t) = t)]),
                                     [NewFrame("closure", "body")
                                         EXCEPT !.kind = c,
                                                !.arg = FromJson(f.arg)])]
                            /\ UNCHANGED hpoisoned
    /\ UNCHANGED <<current, registered, rops, hostKnown, issued, rret>>

\* ---- the user closures --------------------------------------------------

\* echo and relay perform an outbound CALL_FN from inside the callback.
closure_call(t) ==
    /\ UNCHANGED notR
    /\ TopIs(t, "closure", "body")
    /\ Top(rstack[t]).kind \in {"echo", "relay"}
    /\ LET f == Top(rstack[t])
       IN  rstack' = [rstack EXCEPT
              ![t] = Append(SetTop(@, [f EXCEPT !.pc = "wait"]),
                            CallFrame(IF f.kind = "echo" THEN "uppercase"
                                                         ELSE "run_echo",
                                      f.arg))]
    /\ UNCHANGED <<hlock, hpoisoned, current, registered, rops, hostKnown,
                   issued, rret>>

\* registrar registers a new callback from inside the callback.
closure_register(t) ==
    /\ UNCHANGED notR
    /\ TopIs(t, "closure", "body")
    /\ Top(rstack[t]).kind = "registrar"
    /\ MayRegister
    /\ LET f == Top(rstack[t])
       IN  rstack' = [rstack EXCEPT
              ![t] = Append(SetTop(@, [f EXCEPT !.pc = "wait"]),
                            [NewFrame("register_callback", "register")
                                EXCEPT !.kind = "done"])]
    /\ UNCHANGED <<hlock, hpoisoned, current, registered, rops, hostKnown,
                   issued, rret>>

\* The user closure returns its output; the wrapper built by register
\* encodes it (serde_json::to_string), internal_callbacks::call turns the
\* text into an Option, incoming::callback turns that into a pointer, and
\* the dispatcher returns it to the host function that called back.
closure_return(t) ==
    /\ UNCHANGED notR
    /\ rstack[t] # <<>>
    /\ LET f == Top(rstack[t])
           output == IF f.kind \in {"echo", "relay"} /\ f.pc = "ret"
                       THEN f.ret ELSE "unit"
       IN  /\ f.fn = "closure"
           /\ \/ f.pc = "ret"
              \/ f.pc = "body" /\ f.kind = "done"
              \/ f.pc = "body" /\ f.kind = "registrar" /\ ~MayRegister
           /\ rstack' = [rstack EXCEPT
                 ![t] = ReturnTo(PopF(@),
                           CallbackPtr(CallOption(ToJson(output))))]
           \* a guard that call still owns is dropped as call returns
           /\ hlock' = IF Top(PopF(rstack[t])).guard /\ hlock = t
                         THEN 0 ELSE hlock
    /\ UNCHANGED <<hpoisoned, current, registered, rops, hostKnown,
                   issued, rret>>

(***************************************************************************)
(* Part Q. The user-facing callback queue (rust/stasis/src/callbacks.rs).  *)
(***************************************************************************)
QThreadSet == {1, 2}
QIds == 1..MaxIds

\* Option<Box<FnMut()>>::None, and a listener installed by listen:
\*   log         a closure that does nothing with the queue
\*   pop         a closure that pops the id it listens on
\*   push        a closure that pushes a further value on the id it listens on
\*   pop_listen  a closure that calls pop_listen (with a log closure) on the
\*               id it listens on
\*   on          the self-re-arming `listener` that Callbacks::on installs
NoListener == [kind |-> "none", lid |-> 0]
ListenerKinds == {"log", "pop", "push", "pop_listen"}

\* Callback::default()
CallbackDefault == [notify |-> NoListener, stack |-> <<>>]

\* the ids the user holds: those create has returned
QCreated == 1..qcurrent

\* Inner::pop: `self.map.get_mut(&id)?.stack.pop_front()`; the returned
\* Option (some, and the head when some) and the map after it.
InnerPopBack(m, id) ==
    IF id \notin DOMAIN m \/ m[id].stack = <<>>
      THEN [some |-> FALSE, val |-> 0, map |-> m]
      ELSE [some |-> TRUE, val |-> m[id].stack[Len(m[id].stack)],
            map |-> [m EXCEPT ![id].stack = SubSeq(@, 1, Len(@) - 1)]]
InnerPop(m, id) ==
    IF id \notin DOMAIN m \/ m[id].stack = <<>>
      THEN [some |-> FALSE, val |-> 0, map |-> m]
      ELSE [some |-> TRUE, val |-> Head(m[id].stack),
            map |-> [m EXCEPT ![id].stack = Tail(@)]]

\* Inner::listen: `self.map.entry(id).or_insert_with(Callback::default)`,
\* then `cb.notify = Some(..)`.
InnerListenKeepArmed(m, id, l) ==
    LET e == IF id \in DOMAIN m THEN m[id] ELSE CallbackDefault
    IN  (id :> [e EXCEPT !.notify = IF @ = NoListener THEN l ELSE @]) @@ m
InnerListen(m, id, l) ==
    LET e == IF id \in DOMAIN m THEN m[id] ELSE CallbackDefault
    IN  (id :> [e EXCEPT !.notify = l]) @@ m

\* The closure of Callbacks::push: `inner.map.get_mut(&id)?`, then
\* `cb.stack.push_back(t)` and `cb.notify.take()`; the taken listener and
\* the map after it.
PushInnerKeepListener(m, id, v) ==
    IF id \notin DOMAIN m
      THEN [notify |-> NoListener, map |-> m]
      ELSE [notify |-> m[id].notify,
            map |-> [m EXCEPT ![id].stack = Append(@, v)]]
PushInner(m, id, v) ==
    IF id \notin DOMAIN m
      THEN [notify |-> NoListener, map |-> m]
      ELSE [notify |-> m[id].notify,
            map |-> [m EXCEPT ![id].stack = Append(@, v),
                              ![id].notify = NoListener]]

\* The closure of Callbacks::pop_listen: `inner.listen(id, f)` and then
\* `inner.pop(id)`, both inside one `with`.
PopListenPopOnly(m, id, l) == InnerPop(m, id)
PopListenInner(m, id, l) == InnerPop(InnerListen(m, id, l), id)

\* Callbacks::push: the holder of the queue lock at the moment `f()` is
\* invoked, i.e. once `with` has returned the taken listener (0: nobody).
QGuardKept(t) == t
QGuardDropped(t) == 0

\* the activation of listener `l` of id
QInvoke(id, l) ==
    [kind |-> l.kind, lid |-> l.lid, id |-> id, pc |-> "start", val |-> 0]

QRecordPop(id, r) ==
    IF r.some THEN [qpopped EXCEPT ![id] = Append(@, r.val)] ELSE qpopped

\* the history entry of the listener installed next
QInstall(id, k, via) ==
    Append(qinstalled, [id |-> id, kind |-> k, via |-> via])

QIdle(t) == qstack[t] = <<>> /\ qops < MaxQOps /\ qlock = 0

QTopIs(t, kind, pc) ==
    /\ qstack[t] # <<>>
    /\ Top(qstack[t]).kind = kind
    /\ Top(qstack[t]).pc = pc

\* `lock()` on the Global<Inner<T>> by the thread that holds it already.
QRelock(t) ==
    \E o \in RelockOutcomes("native") :
        /\ qstack' = [qstack EXCEPT
              ![t] = SetTop(@, [Top(@) EXCEPT
                       !.pc = IF o = "panic" THEN "relock_panicked"
                                             ELSE "self_deadlock"])]
        /\ qlock' = IF o = "panic" THEN 0 ELSE qlock

\* Callbacks::push(id, t) called by thread t, whose stack is `base` while
\* the push runs: the `with` closure, and `if let Some(mut f) = notify` the
\* listener starts to run (f() is on the stack of the pusher).
QPush(t, id, base) ==
    LET r == PushInner(qmap, id, qnpush + 1)
    IN  /\ qmap' = r.map
        /\ qpushed' = [qpushed EXCEPT ![id] = Append(@, qnpush + 1)]
        /\ IF r.notify = NoListener
             THEN /\ qstack' = [qstack EXCEPT ![t] = base]
                  /\ qlock' = 0
                  /\ UNCHANGED qfired
             ELSE /\ qstack' = [qstack EXCEPT
                        ![t] = Append(base, QInvoke(id, r.notify))]
                  /\ qlock' = QGuardDropped(t)
                  /\ qfired' = Append(qfired, r.notify.lid)
        /\ qnpush' = qnpush + 1
        /\ qops' = qops + 1

\* Callbacks::create
create(t) ==
    /\ UNCHANGED notQ
    /\ QIdle(t)
    /\ qcurrent < MaxIds
    /\ qcurrent' = qcurrent + 1
    /\ qops' = qops + 1
    /\ UNCHANGED <<qlock, qmap, qstack, qnpush, qnlisten, qpushed, qpopped,
                   qfired, qhandled, qinstalled>>

\* Callbacks::listen(id, f)
listen(t) ==
    /\ UNCHANGED notQ
    /\ QIdle(t)
    /\ \E id \in QCreated, k \in ListenerKinds :
         /\ qmap' = InnerListen(qmap, id, [kind |-> k, lid |-> qnlisten + 1])
         /\ qinstalled' = QInstall(id, k, "listen")
    /\ qnlisten' = qnlisten + 1
    /\ qops' = qops + 1
    /\ UNCHANGED <<qlock, qcurrent, qstack, qnpush, qpushed, qpopped, qfired,
                   qhandled>>

\* Callbacks::on(id, f): `self.listen(id, move || listener(id, f, addr))`
on(t) ==
    /\ UNCHANGED notQ
    /\ QIdle(t)
    /\ \E id \in QCreated :
         /\ qmap' = InnerListen(qmap, id,
                                [kind |-> "on", lid |-> qnlisten + 1])
         /\ qinstalled' = QInstall(id, "on", "on")
    /\ qnlisten' = qnlisten + 1
    /\ qops' = qops + 1
    /\ UNCHANGED <<qlock, qcurrent, qstack, qnpush, qpushed, qpopped, qfired,
                   qhandled>>

\* Callbacks::pop(id)
pop(t) ==
    /\ UNCHANGED notQ
    /\ QIdle(t)
    /\ \E id \in QCreated :
         LET r == InnerPop(qmap, id)
         IN  /\ qmap' = r.map
             /\ qpopped' = QRecordPop(id, r)
    /\ qops' = qops + 1
    /\ UNCHANGED <<qlock, qcurrent, qstack, qnpush, qnlisten, qpushed, qfired,
                   qhandled, qinstalled>>

\* Callbacks::pop_listen(id, f): `inner.listen(id, f); inner.pop(id)` in one
\* `with`.
pop_listen(t) ==
    /\ UNCHANGED notQ
    /\ QIdle(t)
    /\ \E id \in QCreated, k \in ListenerKinds :
         LET r == PopListenInner(qmap, id, [kind |-> k, lid |-> qnlisten + 1])
         IN  /\ qmap' = r.map
             /\ qpopped' = QRecordPop(id, r)
             /\ qinstalled' = QInstall(id, k, "pop_listen")
    /\ qnlisten' = qnlisten + 1
    /\ qops' = qops + 1
    /\ UNCHANGED <<qlock, qcurrent, qstack, qnpush, qpushed, qfired,
                   qhandled>>

\* Callbacks::push(id, t) called from the main body
push(t) ==
    /\ UNCHANGED notQ
    /\ QIdle(t)
    /\ \E id \in QCreated : QPush(t, id, qstack[t])
    /\ UNCHANGED <<qcurrent, qnlisten, qpopped, qhandled, qinstalled>>

\* a log listener returns
listener_log(t) ==
    /\ UNCHANGED notQ
    /\ QTopIs(t, "log", "start")
    /\ qstack' = [qstack EXCEPT ![t] = PopF(@)]
    /\ qlock' = IF qlock = t THEN 0 ELSE qlock
    /\ UNCHANGED <<qcurrent, qmap, qops, qnpush, qnlisten, qpushed,
                   qpopped, qfired, qhandled, qinstalled>>

\* a pop listener calls Callbacks::pop(id) and returns
listener_pop(t) ==
    /\ UNCHANGED notQ
    /\ QTopIs(t, "pop", "start")
    /\ IF qlock = t
         THEN QRelock(t) /\ UNCHANGED <<qmap, qpopped>>
         ELSE /\ qlock = 0
              /\ LET f == Top(qstack[t])
                     r == InnerPop(qmap, f.id)
                 IN  /\ qmap' = r.map
                     /\ qpopped' = QRecordPop(f.id, r)
              /\ qstack' = [qstack EXCEPT ![t] = PopF(@)]
              /\ UNCHANGED qlock
    /\ UNCHANGED <<qcurrent, qops, qnpush, qnlisten, qpushed, qfired,
                   qhandled, qinstalled>>

\* a push listener calls Callbacks::push(id, _) (when the run still has
\* operations left) and returns once the push has returned
listener_push(t) ==
    /\ UNCHANGED notQ
    /\ QTopIs(t, "push", "start")
    /\ IF qlock = t
         THEN QRelock(t)
              /\ UNCHANGED <<qmap, qpushed, qfired, qnpush, qops>>
         ELSE /\ qlock = 0
              /\ IF qops < MaxQOps
                   THEN QPush(t, Top(qstack[t]).id,
                              SetTop(qstack[t],
                                     [Top(qstack[t]) EXCEPT !.pc = "ret"]))
                   ELSE /\ qstack' = [qstack EXCEPT ![t] = PopF(@)]
                        /\ UNCHANGED <<qlock, qmap, qpushed, qfired, qnpush,
                                       qops>>
    /\ UNCHANGED <<qcurrent, qnlisten, qpopped, qhandled, qinstalled>>

\* the push of a push listener has returned: the listener returns
listener_ret(t) ==
    /\ UNCHANGED notQ
    /\ QTopIs(t, "push", "ret")
    /\ qstack' = [qstack EXCEPT ![t] = PopF(@)]
    /\ UNCHANGED <<qlock, qcurrent, qmap, qops, qnpush, qnlisten, qpushed,
                   qpopped, qfired, qhandled, qinstalled>>

\* a pop_listen listener calls Callbacks::pop_listen(id, log) and returns
listener_pop_listen(t) ==
    /\ UNCHANGED notQ
    /\ QTopIs(t, "pop_listen", "start")
    /\ IF qlock = t
         THEN QRelock(t)
              /\ UNCHANGED <<qmap, qpopped, qnlisten, qinstalled>>
         ELSE /\ qlock = 0
              /\ LET f == Top(qstack[t])
                     r == PopListenInner(qmap, f.id,
                             [kind |-> "log", lid |-> qnlisten + 1])
                 IN  /\ qmap' = r.map
                     /\ qpopped' = QRecordPop(f.id, r)
                     /\ qinstalled' = QInstall(f.id, "log", "pop_listen")
              /\ qnlisten' = qnlisten + 1
              /\ qstack' = [qstack EXCEPT ![t] = PopF(@)]
              /\ UNCHANGED qlock
    /\ UNCHANGED <<qcurrent, qops, qnpush, qpushed, qfired, qhandled>>

\* `listener` of Callbacks::on: `opt.lock()`, `guard.pop(id).unwrap()`,
\* `drop(guard)`
on_pop(t) ==
    /\ UNCHANGED notQ
    /\ QTopIs(t, "on", "start")
    /\ IF qlock = t
         THEN QRelock(t) /\ UNCHANGED <<qmap, qpopped>>
         ELSE /\ qlock = 0
              /\ LET f == Top(qstack[t])
                     r == InnerPop(qmap, f.id)
                 IN  /\ qmap' = r.map
                     /\ qpopped' = QRecordPop(f.id, r)
                     /\ qstack' = [qstack EXCEPT
                           ![t] = SetTop(@, IF r.some
                                      THEN [f EXCEPT !.pc = "handler",
                                                     !.val = r.val]
                                      ELSE [f EXCEPT !.pc = "panicked"])]
              /\ UNCHANGED qlock
    /\ UNCHANGED <<qcurrent, qops, qnpush, qnlisten, qpushed, qfired,
                   qhandled, qinstalled>>

\* `listener` of Callbacks::on: `f(t)`, the user handler receives the value
on_handler(t) ==
    /\ UNCHANGED notQ
    /\ QTopIs(t, "on", "handler")
    /\ LET f == Top(qstack[t])
       IN  /\ qhandled' = [qhandled EXCEPT ![f.id] = Append(@, f.val)]
           /\ qstack' = [qstack EXCEPT
                 ![t] = SetTop(@, [f EXCEPT !.pc = "relisten"])]
    /\ UNCHANGED <<qlock, qcurrent, qmap, qops, qnpush, qnlisten, qpushed,
                   qpopped, qfired, qinstalled>>

\* `listener` of Callbacks::on: `f(t)` with a user handler that receives the
\* value and pushes a further value on the same id before it returns
on_handler_push(t) ==
    /\ UNCHANGED notQ
    /\ QTopIs(t, "on", "handler")
    /\ qlock = 0
    /\ qops < MaxQOps
    /\ LET f == Top(qstack[t])
       IN  /\ qhandled' = [qhandled EXCEPT ![f.id] = Append(@, f.val)]
           /\ QPush(t, f.id, SetTop(qstack[t], [f EXCEPT !.pc = "relisten"]))
    /\ UNCHANGED <<qcurrent, qnlisten, qpopped, qinstalled>>

\* `listener` of Callbacks::on: `opt.lock()` and
\* `guard.listen(id, move || listener(id, f, addr))`; the listener returns.
on_relisten(t) ==
    /\ UNCHANGED notQ
    /\ QTopIs(t, "on", "relisten")
    /\ qlock = 0
    /\ LET f == Top(qstack[t])
       IN  /\ qmap' = InnerListen(qmap, f.id,
                                  [kind |-> "on", lid |-> qnlisten + 1])
           /\ qinstalled' = QInstall(f.id, "on", "on")
    /\ qnlisten' = qnlisten + 1
    /\ qstack' = [qstack EXCEPT ![t] = PopF(@)]
    /\ UNCHANGED <<qlock, qcurrent, qops, qnpush, qpushed, qpopped, qfired,
                   qhandled>>


(***************************************************************************)
(* Part L. LazyId (rust/stasis/src/callbacks.rs).                          *)
(***************************************************************************)
\* the setup closures a caller may pass to get_or_init
Setups == {"a", "b"}

\* LazyId::get_or_init(f) on the LazyId l: whether f runs, the argument it
\* runs with, the returned id and the LazyId after the call.
GetOrInitNeverMarks(l) ==
    [ran |-> ~l.initialized, arg |-> l.id, ret |-> l.id, lazy |-> l]
GetOrInitRunsAlways(l) ==
    [ran |-> TRUE, arg |-> l.id, ret |-> l.id,
     lazy |-> [l EXCEPT !.initialized = TRUE]]
GetOrInit(l) ==
    IF l.initialized
      THEN [ran |-> FALSE, arg |-> l.id, ret |-> l.id, lazy |-> l]
      ELSE [ran |-> TRUE, arg |-> l.id, ret |-> l.id,
            lazy |-> [l EXCEPT !.initialized = TRUE]]

\* Callbacks::lazy: `LazyId { id: self.create(), initialized: false }`
lazy ==
    /\ UNCHANGED notL
    /\ Len(lazies) < MaxLazy
    /\ lzcurrent' = lzcurrent + 1
    /\ lazies' = Append(lazies, [id |-> lzcurrent + 1, initialized |-> FALSE])
    /\ lzmade' = Append(lzmade, lzcurrent + 1)
    /\ UNCHANGED <<lzcalls, lzruns, lzrets>>

\* LazyId::get_or_init(f) on one of the LazyIds, with one of the setups
get_or_init ==
    /\ UNCHANGED notL
    /\ Len(lzcalls) < MaxLazyCalls
    /\ \E i \in 1..Len(lazies), f \in Setups :
         LET r == GetOrInit(lazies[i])
         IN  /\ lazies' = [lazies EXCEPT ![i] = r.lazy]
             /\ lzcalls' = Append(lzcalls, [lz |-> i, setup |-> f])
             /\ lzruns' = IF r.ran
                            THEN Append(lzruns, [lz |-> i, setup |-> f,
                                    arg |-> r.arg, call |-> Len(lzcalls) + 1])
                            ELSE lzruns
             /\ lzrets' = Append(lzrets, r.ret)
    /\ UNCHANGED <<lzcurrent, lzmade>>

(***************************************************************************)
(* Part E. The task executor (rust/stasis/src/futures/v01.rs and v02.rs).  *)
(* The two executors have the same shape: a POOL of tasks keyed by id,     *)
(* spawn, poll, and a wake handle that calls poll. They differ in the ids  *)
(* (v01 counts from 1, v02 from 0), in the outcomes (v01 has Err) and in   *)
(* what the release of a wake handle does (Notify::drop_id in v01).        *)
(***************************************************************************)
EThreadSet == {1, 2}
ETaskIds == 0..MaxTasks

\* The tasks of the model, by what their progress steps do:
\*   ready     step 1 returns Ready
\*   pending   step 1 returns Pending, step 2 returns Ready
\*   selfwake  step 1 invokes its own wake handle and returns Pending,
\*             step 2 returns Ready
\*   spawner   step 1 spawns a ready task and returns Pending, step 2
\*             returns Ready
\*   failing   step 1 returns Err (v01 only: the error of v02 is Never)
\*   waiter    (Part S) steps 1..spending install a listener that invokes
\*             the wake handle and return Pending, the next returns Ready
TaskKinds(v) ==
    {"ready", "pending", "selfwake", "spawner"}
        \cup (IF v = "v01" THEN {"failing"} ELSE {})

NoTask == [kind |-> "", step |-> 0]

EFrame(fn, pc, id) ==
    [fn |-> fn, pc |-> pc, id |-> id, task |-> NoTask, res |-> ""]

\* the callee on top of s returns to its caller
EReturn(s) ==
    IF Len(s) = 1
      THEN <<>>
      ELSE SetTop(PopF(s), [Top(PopF(s)) EXCEPT !.pc = "ret"])

ETopIs(t, fn, pc) ==
    /\ estack[t] # <<>>
    /\ Top(estack[t]).fn = fn
    /\ Top(estack[t]).pc = pc

\* Pool::next (v01): `self.counter += 1; self.counter`; spawn of v02:
\* `let id = lock.current; lock.current += 1;`
SpawnId(v, c) == IF v = "v01" THEN c + 1 ELSE c

\* poll: `POOL.lock().futures.remove(&id)`, the map after it
PollTakeKeeps(m, id) == m
PollTake(m, id) == [k \in DOMAIN m \ {id} |-> m[k]]

\* poll: the holder of the POOL lock while the task is driven, i.e. after
\* the `let mut f = match POOL.lock().futures.remove(&id) {..};` statement
\* (0: nobody)
PollGuardKept(t) == t
PollGuardDropped(t) == 0

\* poll: `POOL.lock().futures.insert(id, f)`
PollReinsert(m, id, task) == (id :> task) @@ m

\* the result of a progress step that calls nothing
StepResult(task) ==
    CASE task.kind = "ready" -> "Ready"
      [] task.kind = "failing" -> "Err"
      [] task.kind = "waiter" ->
            IF task.step <= spending THEN "Pending" ELSE "Ready"
      [] OTHER -> IF task.step = 1 THEN "Pending" ELSE "Ready"

\* `POOL.lock()` by the thread that holds POOL already.
ERelock(t) ==
    \E o \in RelockOutcomes("native") :
        /\ estack' = [estack EXCEPT
              ![t] = SetTop(@, [Top(@) EXCEPT
                       !.pc = IF o = "panic" THEN "relock_panicked"
                                             ELSE "self_deadlock"])]
        /\ plock' = IF o = "panic" THEN 0 ELSE plock

\* spawn: the holder of the POOL lock when spawn calls poll, i.e. after
\* `drop(lock)` / `drop(guard)` (0: nobody)
SpawnGuardKept(t) == t
SpawnGuardDropped(t) == 0

\* spawn by thread t, whose stack is `base` while spawn runs: the id and the
\* insert under the lock, `drop(guard)`, and the call of poll(id).
SpawnInsert(t, kind, base) ==
    LET id == SpawnId(eversion, pcounter)
    IN  /\ pcounter' = pcounter + 1
        /\ plock' = SpawnGuardDropped(t)
        /\ futures' = (id :> [kind |-> kind, step |-> 0]) @@ futures
        /\ espawned' = Append(espawned, id)
        /\ estack' = [estack EXCEPT
              ![t] = base \o <<EFrame("spawn", "wait", id),
                               EFrame("poll", "remove", id)>>]

\* spawn(f) is called from the main body
spawn(t) ==
    /\ UNCHANGED notE
    /\ estack[t] = <<>>
    /\ eops < MaxEOps
    /\ pcounter < MaxTasks
    /\ plock = 0
    /\ \E k \in TaskKinds(eversion) : SpawnInsert(t, k, <<>>)
    /\ eops' = eops + 1
    /\ UNCHANGED <<eversion, edone, epolls>>

\* A wake handle of a task is invoked from the main body of a thread (a
\* listener fired by the host): StasisWake::wake (v02),
\* StasisNotify::notify (v01); both call poll(id). A task hands out wake
\* handles in its progress steps, so a handle exists once a step started.
wake(t) ==
    /\ UNCHANGED notE
    /\ estack[t] = <<>>
    /\ eops < MaxEOps
    /\ \E i \in 1..Len(espawned) :
         /\ epolls[espawned[i]] >= 1
         /\ estack' = [estack EXCEPT
            ![t] = <<EFrame("wake", "wait", espawned[i]),
                     EFrame("poll", "remove", espawned[i])>>]
    /\ eops' = eops + 1
    /\ UNCHANGED <<eversion, plock, pcounter, futures, espawned, edone,
                   epolls>>

\* poll(id): `match POOL.lock().futures.remove(&id)`: None returns, Some(f)
\* is the task in hand, with the guard dropped at the end of the statement.
poll_remove(t) ==
    /\ UNCHANGED notE
    /\ ETopIs(t, "poll", "remove")
    /\ IF plock = t
         THEN ERelock(t) /\ UNCHANGED <<futures, epolls>>
         ELSE /\ plock = 0
              /\ LET f == Top(estack[t])
                 IN  IF f.id \in DOMAIN futures
                       THEN /\ futures' = PollTake(futures, f.id)
                            /\ plock' = PollGuardDropped(t)
                            /\ epolls' = [epolls EXCEPT ![f.id] = @ + 1]
                            /\ estack' = [estack EXCEPT
                                  ![t] = SetTop(@, [f EXCEPT
                                     !.pc = "drive",
                                     !.task = [futures[f.id] EXCEPT
                                                 !.step = @ + 1]])]
                       ELSE /\ estack' = [estack EXCEPT ![t] = EReturn(@)]
                            /\ UNCHANGED <<futures, plock, epolls>>
    /\ UNCHANGED <<eversion, pcounter, eops, espawned, edone>>

\* the progress step of the task in hand returns without calling the
\* executor (f.poll / spawn.poll_future_notify)
task_result(t) ==
    /\ UNCHANGED notE
    /\ ETopIs(t, "poll", "drive")
    /\ LET f == Top(estack[t])
       IN  /\ IF f.task.kind = "waiter"
                THEN f.task.step > spending
                ELSE \/ f.task.kind \in {"ready", "pending", "failing"}
                     \/ f.task.step > 1
                     \/ f.task.kind = "spawner" /\ pcounter >= MaxTasks
           /\ estack' = [estack EXCEPT
                 ![t] = SetTop(@, [f EXCEPT !.pc = "match",
                                            !.res = StepResult(f.task)])]
    /\ UNCHANGED <<eversion, plock, pcounter, futures, eops, espawned, edone,
                   epolls>>

\* the progress step of a selfwake task invokes its wake handle: poll(id)
\* is called from inside the step
task_wake(t) ==
    /\ UNCHANGED notE
    /\ ETopIs(t, "poll", "drive")
    /\ LET f == Top(estack[t])
       IN  /\ f.task.kind = "selfwake"
           /\ f.task.step = 1
           /\ estack' = [estack EXCEPT
                 ![t] = Append(SetTop(@, [f EXCEPT !.pc = "wait"]),
                               EFrame("poll", "remove", f.id))]
    /\ UNCHANGED <<eversion, plock, pcounter, futures, eops, espawned, edone,
                   epolls>>

\* the progress step of a spawner task calls spawn
task_spawn(t) ==
    /\ UNCHANGED notE
    /\ ETopIs(t, "poll", "drive")
    /\ pcounter < MaxTasks
    /\ LET f == Top(estack[t])
       IN  /\ f.task.kind = "spawner"
           /\ f.task.step = 1
           /\ IF plock = t
                THEN ERelock(t) /\ UNCHANGED <<pcounter, futures, espawned>>
                ELSE /\ plock = 0
                     /\ SpawnInsert(t, "ready",
                           SetTop(estack[t], [f EXCEPT !.pc = "wait"]))
    /\ UNCHANGED <<eversion, eops, edone, epolls>>

\* the call made by the progress step has returned: the step returns
task_resume(t) ==
    /\ UNCHANGED notE
    /\ ETopIs(t, "poll", "ret")
    /\ LET f == Top(estack[t])
       IN  estack' = [estack EXCEPT
              ![t] = SetTop(@, [f EXCEPT !.pc = "match",
                                         !.res = StepResult(f.task)])]
    /\ UNCHANGED <<eversion, plock, pcounter, futures, eops, espawned, edone,
                   epolls>>

\* poll(id): `match poll`: Pending / NotReady re-inserts the task under the
\* lock, Ready and Err drop it.
poll_finish(t) ==
    /\ UNCHANGED notE
    /\ ETopIs(t, "poll", "match")
    /\ LET f == Top(estack[t])
       IN  IF f.res = "Pending"
             THEN IF plock = t
                    THEN ERelock(t) /\ UNCHANGED <<futures, edone>>
                    ELSE /\ plock = 0
                         /\ futures' = PollReinsert(futures, f.id, f.task)
                         /\ estack' = [estack EXCEPT ![t] = EReturn(@)]
                         /\ UNCHANGED <<plock, edone>>
             ELSE /\ edone' = edone \cup {f.id}
                  /\ estack' = [estack EXCEPT ![t] = EReturn(@)]
                  /\ plock' = IF plock = t THEN 0 ELSE plock
                  /\ UNCHANGED futures
    /\ UNCHANGED <<eversion, pcounter, eops, espawned, epolls>>

\* spawn returns once its poll(id) has returned
spawn_return(t) ==
    /\ UNCHANGED notE
    /\ ETopIs(t, "spawn", "ret")
    /\ estack' = [estack EXCEPT ![t] = EReturn(@)]
    /\ UNCHANGED <<eversion, plock, pcounter, futures, eops, espawned, edone,
                   epolls>>

\* v01: the wake handle that was invoked is released:
\* StasisNotify::drop_id, `POOL.lock().futures.remove(&id)`
drop_id(t) ==
    /\ UNCHANGED notE
    /\ eversion = "v01"
    /\ ETopIs(t, "wake", "ret")
    /\ plock = 0
    /\ futures' = PollTake(futures, Top(estack[t]).id)
    /\ estack' = [estack EXCEPT ![t] = EReturn(@)]
    /\ UNCHANGED <<eversion, plock, pcounter, eops, espawned, edone, epolls>>

\* v02: the wake handle that was invoked is released (an Arc<StasisWake>:
\* nothing happens to the pool)
wake_return(t) ==
    /\ UNCHANGED notE
    /\ eversion = "v02"
    /\ ETopIs(t, "wake", "ret")
    /\ estack' = [estack EXCEPT ![t] = EReturn(@)]
    /\ UNCHANGED <<eversion, plock, pcounter, futures, eops, espawned, edone,
                   epolls>>

(***************************************************************************)
(* Part S. A task that waits for values of the callback queue: each of its *)
(* first `spending` progress steps installs a listener on its CallbackId   *)
(* (Callbacks::listen) that invokes the wake handle of the task, and       *)
(* returns Pending; the next step returns Ready. The host delivers values  *)
(* with Callbacks::push between the calls into the guest (one thread).     *)
(***************************************************************************)
SThreadSet == {1}

\* the listener a progress step of task id installs
WakeListener(id) == [kind |-> "wake", lid |-> id]

\* the setup: `CALLBACKS.create()`
s5_create(t) ==
    /\ UNCHANGED notS
    /\ estack[t] = <<>>
    /\ scb = 0
    /\ qlock = 0
    /\ qcurrent' = qcurrent + 1
    /\ scb' = qcurrent + 1
    /\ UNCHANGED <<qlock, qmap, qstack, qops, qnpush, qnlisten, qpushed,
                   qpopped, qfired, qhandled, qinstalled>>
    /\ UNCHANGED <<evars, spending, sfired, sidle>>

\* the setup: spawn of the task
s5_spawn(t) ==
    /\ UNCHANGED notS
    /\ estack[t] = <<>>
    /\ scb # 0
    /\ espawned = <<>>
    /\ plock = 0
    /\ SpawnInsert(t, "waiter", <<>>)
    /\ UNCHANGED <<eversion, eops, edone, epolls>>
    /\ UNCHANGED <<qvars, svars>>

\* a progress step of the task installs its listener and returns Pending
s5_listen(t) ==
    /\ UNCHANGED notS
    /\ ETopIs(t, "poll", "drive")
    /\ qlock = 0
    /\ LET f == Top(estack[t])
       IN  /\ f.task.kind = "waiter"
           /\ f.task.step <= spending
           /\ qmap' = InnerListen(qmap, scb, WakeListener(f.id))
           /\ estack' = [estack EXCEPT
                 ![t] = SetTop(@, [f EXCEPT !.pc = "match",
                                            !.res = StepResult(f.task)])]
    /\ UNCHANGED <<qlock, qcurrent, qstack, qops, qnpush, qnlisten, qpushed,
                   qpopped, qfired, qhandled, qinstalled>>
    /\ UNCHANGED <<eversion, plock, pcounter, futures, eops, espawned, edone,
                   epolls>>
    /\ UNCHANGED svars

\* a host tick: Callbacks::push(id, value) from the host, with the guest
\* idle; the listener it takes runs with the lock released and invokes the
\* wake handle it holds, which calls poll(id)
s5_tick(t) ==
    /\ UNCHANGED notS
    /\ estack[t] = <<>>
    /\ scb # 0
    /\ qlock = 0
    /\ LET r == PushInner(qmap, scb, sfired + sidle + 1)
       IN  /\ qmap' = r.map
           /\ IF r.notify = NoListener
                THEN /\ sidle < MaxIdleTicks
                     /\ sidle' = sidle + 1
                     /\ UNCHANGED <<sfired, estack>>
                ELSE /\ sfired' = sfired + 1
                     /\ estack' = [estack EXCEPT
                           ![t] = <<EFrame("wake", "wait", r.notify.lid),
                                    EFrame("poll", "remove", r.notify.lid)>>]
                     /\ UNCHANGED sidle
    /\ UNCHANGED <<qlock, qcurrent, qstack, qops, qnpush, qnlisten, qpushed,
                   qpopped, qfired, qhandled, qinstalled>>
    /\ UNCHANGED <<eversion, plock, pcounter, futures, eops, espawned, edone,
                   epolls>>
    /\ UNCHANGED <<spending, scb>>

(***************************************************************************)
(* Part O. The outbound opcodes (rust/stasis-internals/src/outgoing.rs) as *)
(* the host sees them, the startup handshake of create_module, the Module  *)
(* handle and the prelude (rust/stasis/src/lib.rs).                        *)
(***************************************************************************)
OThreadSet == {1, 2}

\* mod opcode
REGISTER_STASIS_CB == 0
CREATE_MODULE == 1
REGISTER_FN == 2
REGISTER_CB == 3
CALL_FN == 4

\* create_module: `if !*guard`
NeedsRegisterNever(b) == FALSE
NeedsRegister(b) == ~b

\* create_module: `*guard = true`
LatchSetNever(b) == b
LatchSet(b) == TRUE

OGoto(t, pc) == opc' = [opc EXCEPT ![t] = pc]

OIdle(t) == opc[t] = "idle" /\ oops < MaxOOps

\* Module::new(): create_module is called
Module_new(t) ==
    /\ UNCHANGED notO
    /\ OIdle(t)
    /\ OGoto(t, "cm_lock")
    /\ othen' = [othen EXCEPT ![t] = "new"]
    /\ oops' = oops + 1
    /\ UNCHANGED <<latch, latchlock, modules, nextmod, otrace, pronce, prlock,
                   prmod>>

\* create_module: `STASIS_CALLBACK_REGISTERED.lock().unwrap()`
create_module_lock(t) ==
    /\ UNCHANGED notO
    /\ opc[t] = "cm_lock"
    /\ latchlock = 0
    /\ latchlock' = t
    /\ OGoto(t, "cm_check")
    /\ UNCHANGED <<latch, othen, modules, nextmod, otrace, oops, pronce,
                   prlock, prmod>>

\* create_module: `if !*guard { register_stasis_callback(..); *guard = true }`
create_module_register(t) ==
    /\ UNCHANGED notO
    /\ opc[t] = "cm_check"
    /\ IF NeedsRegister(latch)
         THEN /\ otrace' = Append(otrace, REGISTER_STASIS_CB)
              /\ latch' = LatchSet(latch)
         ELSE UNCHANGED <<otrace, latch>>
    /\ OGoto(t, "cm_drop")
    /\ UNCHANGED <<latchlock, othen, modules, nextmod, oops, pronce, prlock,
                   prmod>>

\* create_module: `drop(guard)`
create_module_drop(t) ==
    /\ UNCHANGED notO
    /\ opc[t] = "cm_drop"
    /\ latchlock' = 0
    /\ OGoto(t, "cm_create")
    /\ UNCHANGED <<latch, othen, modules, nextmod, otrace, oops, pronce,
                   prlock, prmod>>

\* create_module: `__stasis_call(opcode::CREATE_MODULE, 0, 0)`; the id the
\* host returns becomes a Module (Module::new) or the Module of the prelude
create_module_emit(t) ==
    /\ UNCHANGED notO
    /\ opc[t] = "cm_create"
    /\ otrace' = Append(otrace, CREATE_MODULE)
    /\ nextmod' = nextmod + 1
    /\ IF othen[t] = "new"
         THEN /\ modules' = modules \cup {nextmod}
              /\ OGoto(t, "idle")
              /\ UNCHANGED prmod
         ELSE /\ prmod' = nextmod
              /\ OGoto(t, "pr_register")
              /\ UNCHANGED modules
    /\ UNCHANGED <<latch, latchlock, othen, oops, pronce, prlock>>

\* Module::register -> register_fn
outgoing_register_fn(t) ==
    /\ UNCHANGED notO
    /\ OIdle(t)
    /\ modules # {}
    /\ otrace' = Append(otrace, REGISTER_FN)
    /\ oops' = oops + 1
    /\ UNCHANGED <<latch, latchlock, opc, othen, modules, nextmod, pronce,
                   prlock, prmod>>

\* Module::register_callback -> register_callback
outgoing_register_callback(t) ==
    /\ UNCHANGED notO
    /\ OIdle(t)
    /\ modules # {}
    /\ otrace' = Append(otrace, REGISTER_CB)
    /\ oops' = oops + 1
    /\ UNCHANGED <<latch, latchlock, opc, othen, modules, nextmod, pronce,
                   prlock, prmod>>

\* Module::call -> call
outgoing_call(t) ==
    /\ UNCHANGED notO
    /\ OIdle(t)
    /\ modules # {}
    /\ otrace' = Append(otrace, CALL_FN)
    /\ oops' = oops + 1
    /\ UNCHANGED <<latch, latchlock, opc, othen, modules, nextmod, pronce,
                   prlock, prmod>>

\* alert, console::log, console::error, console::warn: `PRELUDE.lock()`
\* starts with ensure_exists; the first caller runs Prelude::default(), a
\* caller that finds the Once running waits
prelude_fn(t) ==
    /\ UNCHANGED notO
    /\ OIdle(t)
    /\ pronce # "RUNNING"
    /\ IF pronce = "INCOMPLETE"
         THEN /\ pronce' = "RUNNING"
              /\ OGoto(t, "cm_lock")
              /\ othen' = [othen EXCEPT ![t] = "prelude"]
         ELSE /\ OGoto(t, "pr_lock")
              /\ UNCHANGED <<pronce, othen>>
    /\ oops' = oops + 1
    /\ UNCHANGED <<latch, latchlock, modules, nextmod, otrace, prlock, prmod>>

\* Prelude::default() after Module::new(): the four m.register calls
prelude_default(t) ==
    /\ UNCHANGED notO
    /\ opc[t] = "pr_register"
    /\ otrace' = otrace \o <<REGISTER_FN, REGISTER_FN, REGISTER_FN,
                             REGISTER_FN>>
    /\ pronce' = "COMPLETE"
    /\ OGoto(t, "pr_lock")
    /\ UNCHANGED <<latch, latchlock, othen, modules, nextmod, oops, prlock,
                   prmod>>

\* `PRELUDE.lock()`: the guard of the prelude; a thread that holds the guard
\* already locks the mutex recursively
prelude_lock(t) ==
    /\ UNCHANGED notO
    /\ opc[t] = "pr_lock"
    /\ IF prlock = t
         THEN \E o \in RelockOutcomes(target) :
                /\ OGoto(t, IF o = "panic" THEN "relock_panicked"
                                           ELSE "self_deadlock")
                /\ prlock' = IF o = "panic" THEN 0 ELSE prlock
         ELSE /\ prlock = 0
              /\ prlock' = t
              /\ OGoto(t, "pr_call")
    /\ UNCHANGED <<latch, latchlock, othen, modules, nextmod, otrace, oops,
                   pronce, prmod>>

\* `PRELUDE.lock().0.call(name, t)`: the holder of the PRELUDE lock while
\* the CALL_FN is in flight. The guard is a temporary of the tail expression
\* of the wrapper, which lives until `call` has returned (0: nobody).
PreludeGuardDropped(t) == 0
PreludeGuardKept(t) == t

\* `.0.call(name, t)`: the CALL_FN is emitted and the host runs
prelude_call(t) ==
    /\ UNCHANGED notO
    /\ opc[t] = "pr_call"
    /\ otrace' = Append(otrace, CALL_FN)
    /\ prlock' = PreludeGuardKept(t)
    /\ OGoto(t, "pr_wait")
    /\ UNCHANGED <<latch, latchlock, othen, modules, nextmod, oops, pronce,
                   prmod>>

\* what a guest callback that the host dispatches during the CALL_FN does:
\*   log    it calls console::log
\*   panic  it panics, and the hook of setup_panic calls console::error
PreludeClosures == {"log", "panic"}

\* the host dispatches a guest callback while the CALL_FN of a prelude
\* wrapper is in flight; both kinds of closure arrive at `PRELUDE.lock()`
\* (ensure_exists finds the Once complete)
prelude_dispatch(t) ==
    /\ UNCHANGED notOP
    /\ opc[t] = "pr_wait"
    /\ oops < MaxOOps
    /\ prdepth[t] < MaxNest
    /\ \E k \in PreludeClosures : othen' = [othen EXCEPT ![t] = k]
    /\ prdepth' = [prdepth EXCEPT ![t] = @ + 1]
    /\ OGoto(t, "pr_lock")
    /\ oops' = oops + 1
    /\ UNCHANGED <<latch, latchlock, modules, nextmod, otrace, pronce, prlock,
                   prmod>>

\* the host returns from the CALL_FN: `call` returns, the guard temporary is
\* dropped and the wrapper returns, to the host when it was called from a
\* dispatched callback
prelude_return(t) ==
    /\ UNCHANGED notOP
    /\ opc[t] = "pr_wait"
    /\ prlock' = IF prlock = t THEN 0 ELSE prlock
    /\ IF prdepth[t] > 0
         THEN /\ prdepth' = [prdepth EXCEPT ![t] = @ - 1]
              /\ OGoto(t, "pr_wait")
         ELSE /\ OGoto(t, "idle")
              /\ UNCHANGED prdepth
    /\ UNCHANGED <<latch, latchlock, othen, modules, nextmod, otrace, oops,
                   pronce, prmod>>

(***************************************************************************)
(* Part M. The heap regions that cross the boundary between guest and     *)
(* host: the inbound dispatcher (rust/stasis-internals/src/incoming.rs),   *)
(* the fat pointers (data.rs), and the payloads and return values of the   *)
(* outbound calls (outgoing.rs). One thread (the wasm build): the host     *)
(* runs when the guest is idle or waits inside __stasis_call.              *)
(***************************************************************************)
\* incoming.rs, mod opcode
ALLOC == 0
DEALLOC == 1
CALLBACK == 2

\* the opcodes the host calls the dispatcher with
InOps == {ALLOC, DEALLOC, CALLBACK, 3, 99}

\* `const TRI_LEN: usize = 3 * mem::size_of::<u32>()`
TRI_LEN == 12
\* the size of a fat pointer header: `Vec::from_raw_parts(src, 8, 8)`
PAIR_LEN == 8

\* the null pointer and `(-1i32) as *mut u8`
NullPtr == 0
MinusOnePtr == -1

\* incoming: `match op`
HandlerNoDefault(op) ==
    CASE op = DEALLOC -> "dealloc"
      [] op = CALLBACK -> "callback"
      [] OTHER -> "alloc"
Handler(op) ==
    CASE op = ALLOC -> "alloc"
      [] op = DEALLOC -> "dealloc"
      [] op = CALLBACK -> "callback"
      [] OTHER -> "unknown"

\* a region as the allocator hands it out: its capacity, the length in
\* use, who owns it, what it is used for and the u32 words written to it.
\* The uses: "alloc" a region the host asked for, "desc" and "args" the
\* descriptor and the args of a CALLBACK, "out" the payload of an outbound
\* call, "result" and "header" the payload and the fat pointer of a value
\* that is returned across the boundary
Region(cap, len, owner, role, words) ==
    [cap |-> cap, len |-> len, owner |-> owner, role |-> role,
     live |-> TRUE, gfrees |-> 0, hfrees |-> 0, words |-> words]

\* the deallocation of region p as a buffer of capacity cap, by `who`
Dealloc(regs, p, who) ==
    [regs EXCEPT ![p] = [@ EXCEPT
        !.live = FALSE,
        !.gfrees = IF who = "guest" THEN @ + 1 ELSE @,
        !.hfrees = IF who = "host" THEN @ + 1 ELSE @]]

\* what is wrong with that deallocation (nothing: {})
DeallocFaults(regs, p, cap, who) ==
    (IF regs[p].live THEN {} ELSE {[p |-> p, fault |-> "double free"]})
      \cup (IF regs[p].cap = cap THEN {}
                                ELSE {[p |-> p, fault |-> "capacity"]})
      \cup (IF regs[p].owner = who THEN {}
                                   ELSE {[p |-> p, fault |-> "not owner"]})

\* the capacities `serde_json::to_string` may leave a String of length len
\* with
StringCaps(len) == {len, len + MaxSlack}

\* impl From<String> for Pair: `bytes.shrink_to_fit()`, the capacity after
ShrinkNot(cap, len) == cap
ShrinkToFit(cap, len) == len

\* callback: `bytes` goes out of scope at the end of the function
ForgetBytes(regs, p) == regs
DropBytes(regs, p) == Dealloc(regs, p, "guest")

\* Pair::from_u8_mut_ptr: `drop(bytes)`
KeepHeader(regs, p) == regs
DropHeader(regs, p) == Dealloc(regs, p, "guest")

\* the closures of the registry, by what the wrapped user function does:
\*   value  returns a string
\*   unit   returns ()
\*   relay  calls a host function (outgoing::call) and returns its result
MKinds == {"value", "unit", "relay"}

MFrame(fn, pc, a, b, kind) ==
    [fn |-> fn, pc |-> pc, a |-> a, b |-> b, kind |-> kind, out |-> "",
     ret |-> NullPtr]

MTopIs(fn, pc) ==
    /\ mstack # <<>>
    /\ Top(mstack).fn = fn
    /\ Top(mstack).pc = pc

\* the host runs: the guest is idle, or waits inside __stasis_call(CALL_FN)
HostTurn == mstack = <<>> \/ MTopIs("call", "host")

MNest == Cardinality({i \in 1..Len(mstack) : mstack[i].fn = "callback"})

\* impl From<String> for Pair and impl Into<*mut u8> for Pair: the payload
\* of text s, whose buffer had capacity c, is released to the host
PairFrom(regs, s, c, role) ==
    Append(regs, Region(ShrinkToFit(c, Len(s)), Len(s), "host", role, <<>>))

\* Into<*mut u8>: the 8-byte header of the payload that was allocated last
PairInto(regs) ==
    Append(regs, Region(PAIR_LEN, PAIR_LEN, "host", "header",
                        <<Len(regs), regs[Len(regs)].len>>))

\* incoming(ALLOC, size, _): alloc
incoming_alloc ==
    /\ UNCHANGED notM
    /\ HostTurn
    /\ mops < MaxMOps
    /\ \E op \in InOps, size \in {PAIR_LEN, TRI_LEN} :
         /\ Handler(op) = "alloc"
         /\ mregions' = Append(mregions,
                                Region(size, size, "host", "alloc", <<>>))
         /\ mlast' = [op |-> op, ret |-> Len(mregions) + 1, n |-> mlast.n + 1]
    /\ mops' = mops + 1
    /\ UNCHANGED <<mstack, mfaults, mdone, mcalled>>

\* incoming(DEALLOC, ptr, len): dealloc, `Vec::from_raw_parts(ptr, len,
\* len)` is dropped. The host frees a region it owns with the length it knows.
incoming_dealloc ==
    /\ UNCHANGED notM
    /\ HostTurn
    /\ mops < MaxMOps
    /\ \E op \in InOps, p \in 1..Len(mregions) :
         /\ Handler(op) = "dealloc"
         /\ mregions[p].owner = "host"
         /\ mregions[p].live
         /\ mregions' = Dealloc(mregions, p, "host")
         /\ mfaults' = mfaults
                \cup DeallocFaults(mregions, p, mregions[p].len, "host")
         /\ mlast' = [op |-> op, ret |-> NullPtr, n |-> mlast.n + 1]
    /\ mops' = mops + 1
    /\ UNCHANGED <<mstack, mdone, mcalled>>

\* incoming(op, _, _) with an opcode of no handler
incoming_unknown ==
    /\ UNCHANGED notM
    /\ HostTurn
    /\ mops < MaxMOps
    /\ \E op \in InOps :
         /\ Handler(op) = "unknown"
         /\ mlast' = [op |-> op, ret |-> MinusOnePtr, n |-> mlast.n + 1]
    /\ mops' = mops + 1
    /\ UNCHANGED <<mregions, mstack, mfaults, mdone, mcalled>>

\* The host allocates a descriptor and the args payload with ALLOC, fills
\* them in and calls incoming(CALLBACK, data, _): callback takes both
\* regions (`Vec::from_raw_parts(data, TRI_LEN, TRI_LEN)`,
\* `String::from_raw_parts(ptr, len, len)`) and internal_callbacks::call
\* starts the closure.
incoming_callback ==
    /\ UNCHANGED notM
    /\ HostTurn
    /\ MNest < MaxNest
    /\ mops < MaxMOps
    /\ \E op \in InOps, k \in MKinds, a \in CallArgs :
         LET len == Len(ToJson(a))
             desc == Len(mregions) + 1
             args == Len(mregions) + 2
         IN  /\ Handler(op) = "callback"
             /\ mregions' = mregions \o
                   << Region(TRI_LEN, TRI_LEN, "guest", "desc",
                             <<0, args, len>>),
                      Region(len, len, "guest", "args", <<>>) >>
             /\ mstack' = Append(mstack,
                   [MFrame("callback", "closure", desc, args, k)
                      EXCEPT !.out = ToJson(a)])
    /\ mops' = mops + 1
    /\ UNCHANGED <<mlast, mfaults, mdone, mcalled>>

\* the user function of a value or unit closure returns
closure_body ==
    /\ UNCHANGED notM
    /\ MTopIs("callback", "closure")
    /\ Top(mstack).kind \in {"value", "unit"}
    /\ LET f == Top(mstack)
           v == IF f.kind = "unit" THEN "unit" ELSE Upper(FromJson(f.out))
       IN  mstack' = SetTop(mstack, [f EXCEPT !.pc = "wrapper",
                                              !.out = ToJson(v)])
    /\ UNCHANGED <<mregions, mlast, mfaults, mdone, mcalled, mops>>

\* outgoing::call up to __stasis_call(CALL_FN, ptr, len), from a relay
\* closure: the serialized call is released to the host
closure_call_fn ==
    /\ UNCHANGED notM
    /\ MTopIs("callback", "closure")
    /\ Top(mstack).kind = "relay"
    /\ \E c \in StringCaps(Len(Top(mstack).out)) :
         /\ mregions' = PairFrom(mregions, Top(mstack).out, c, "out")
         /\ mstack' = Append(
               SetTop(mstack, [Top(mstack) EXCEPT !.pc = "wait"]),
               MFrame("call", "host", Len(mregions) + 1, 0, ""))
    /\ UNCHANGED <<mlast, mfaults, mdone, mcalled, mops>>

\* outgoing::call up to __stasis_call(CALL_FN, ptr, len), from the main body
main_call_fn ==
    /\ UNCHANGED notM
    /\ mstack = <<>>
    /\ mops < MaxMOps
    /\ \E a \in CallArgs : \E c \in StringCaps(Len(ToJson(a))) :
         /\ mregions' = PairFrom(mregions, ToJson(a), c, "out")
         /\ mstack' = <<MFrame("call", "host", Len(mregions) + 1, 0, "")>>
    /\ mops' = mops + 1
    /\ UNCHANGED <<mlast, mfaults, mdone, mcalled>>

\* register_fn and register_callback from the main body: the serialized
\* data is released to the host with REGISTER_FN or REGISTER_CB, and the
\* call returns
main_register ==
    /\ UNCHANGED notM
    /\ mstack = <<>>
    /\ mops < MaxMOps
    /\ \E a \in CallArgs : \E c \in StringCaps(Len(ToJson(a))) :
         mregions' = PairFrom(mregions, ToJson(a), c, "out")
    /\ mops' = mops + 1
    /\ UNCHANGED <<mstack, mlast, mfaults, mdone, mcalled>>

\* __stasis_call(CALL_FN, ..) returns: the null pointer, or the address of
\* an 8-byte header the host allocated with ALLOC, naming a payload it
\* allocated with ALLOC; both are the guest's from now on
host_call_return ==
    /\ UNCHANGED notM
    /\ MTopIs("call", "host")
    /\ \/ /\ mstack' = SetTop(mstack, [Top(mstack) EXCEPT
                          !.pc = "ret", !.ret = NullPtr])
          /\ UNCHANGED mregions
       \/ \E v \in CallArgs :
            LET len == Len(ToJson(v))
                payload == Len(mregions) + 1
                header == Len(mregions) + 2
            IN  /\ mregions' = mregions \o
                      << Region(len, len, "guest", "result", <<>>),
                         Region(PAIR_LEN, PAIR_LEN, "guest", "header",
                                <<payload, len>>) >>
                /\ mstack' = SetTop(mstack, [Top(mstack) EXCEPT
                      !.pc = "ret", !.ret = header, !.out = ToJson(v)])
    /\ UNCHANGED <<mlast, mfaults, mdone, mcalled, mops>>

\* outgoing::call after __stasis_call: null gives "null"; otherwise
\* Pair::from_u8_mut_ptr(ret) reads and drops the header, into_string takes
\* the payload, which is dropped with `value` when call returns the decoded
\* result to its caller
call_fn_finish ==
    /\ UNCHANGED notM
    /\ MTopIs("call", "ret")
    /\ LET f == Top(mstack)
           value == IF f.ret = NullPtr THEN "null" ELSE f.out
           payload == IF f.ret = NullPtr THEN NullPtr
                                         ELSE mregions[f.ret].words[1]
           len == IF f.ret = NullPtr THEN 0 ELSE mregions[f.ret].words[2]
           r1 == IF f.ret = NullPtr THEN mregions
                                    ELSE DropHeader(mregions, f.ret)
           r2 == IF f.ret = NullPtr THEN r1 ELSE Dealloc(r1, payload, "guest")
           below == PopF(mstack)
       IN  /\ mregions' = r2
           /\ mfaults' = mfaults \cup
                 (IF f.ret = NullPtr THEN {}
                    ELSE DeallocFaults(mregions, f.ret, PAIR_LEN, "guest")
                           \cup DeallocFaults(r1, payload, len, "guest"))
           /\ mcalled' = Append(mcalled,
                 [ret |-> f.ret, payload |-> payload, sent |-> f.a,
                  value |-> FromJson(value)])
           /\ mstack' = IF below = <<>>
                          THEN <<>>
                          ELSE SetTop(below, [Top(below) EXCEPT
                                  !.pc = "wrapper",
                                  !.out = ToJson(FromJson(value))])
    /\ UNCHANGED <<mlast, mdone, mops>>

\* the wrapper of internal_callbacks::register returns the serialized
\* output: `input` (the args payload) is dropped
closure_wrapper_return ==
    /\ UNCHANGED notM
    /\ MTopIs("callback", "wrapper")
    /\ LET f == Top(mstack)
       IN  /\ mregions' = Dealloc(mregions, f.b, "guest")
           /\ mfaults' = mfaults \cup
                 DeallocFaults(mregions, f.b, mregions[f.a].words[3], "guest")
           /\ mstack' = SetTop(mstack, [f EXCEPT !.pc = "ret"])
    /\ UNCHANGED <<mlast, mdone, mcalled, mops>>

\* internal_callbacks::call returns the Option and callback returns:
\* `Some(s) => Pair::from(s).into()`, `None => 0 as *mut u8`, and `bytes`
\* (the descriptor) is dropped
callback_return ==
    /\ UNCHANGED notM
    /\ MTopIs("callback", "ret")
    /\ LET f == Top(mstack)
           opt == CallOption(f.out)
       IN  \E c \in StringCaps(Len(f.out)) :
             LET r1 == IF opt = "None" THEN mregions
                         ELSE PairInto(PairFrom(mregions, opt, c, "result"))
                 ret == IF opt = "None" THEN NullPtr ELSE Len(r1)
             IN  /\ mregions' = DropBytes(r1, f.a)
                 /\ mfaults' = mfaults \cup
                       DeallocFaults(mregions, f.a, TRI_LEN, "guest")
                 /\ mlast' = [op |-> CALLBACK, ret |-> ret, n |-> mlast.n + 1]
                 /\ mdone' = Append(mdone,
                       [desc |-> f.a, args |-> f.b, out |-> f.out,
                        ret |-> ret, regions |-> Len(mregions)])
                 /\ mstack' = PopF(mstack)
    /\ UNCHANGED <<mcalled, mops>>

(***************************************************************************)
(* Part K. The callback manager of the first crate (rust/src/callbacks.rs):*)
(* a map from CallbackId to Waiting(listener) or Ready(value). One thread; *)
(* every lock on the Global that holds the manager is released before the  *)
(* step that took it ends (Callbacks::call drops it before `f()`).         *)
(***************************************************************************)
\* the CallbackIds create has returned
KCreated == 0..(kcounter - 1)

\* The listeners of the model, by what they do when called:
\*   log   nothing with the manager
\*   get   `CALLBACKS.lock().get(id)` for the id it was registered on
KListeners == {"log", "get"}

\* Option<Callback<T>>: None, Some(Callback::Waiting(f)), Some(Callback::Ready(t))
KNone == [state |-> "None", val |-> 0, f |-> ""]
Waiting(f) == [state |-> "Waiting", val |-> 0, f |-> f]
Ready(v) == [state |-> "Ready", val |-> v, f |-> ""]

\* HashMap::get / insert / remove
MapGet(m, id) == IF id \in DOMAIN m THEN m[id] ELSE KNone
MapInsert(m, id, c) == (id :> c) @@ [k \in DOMAIN m \ {id} |-> m[k]]
MapRemove(m, id) == [k \in DOMAIN m \ {id} |-> m[k]]

\* Callbacks::get: the returned Option (0: None) and the map after it
LegacyGetDropsWaiting(m, id) ==
    LET c == MapGet(m, id)
    IN  [ret |-> IF c.state = "Ready" THEN c.val ELSE 0,
         map |-> MapRemove(m, id)]
LegacyGet(m, id) ==
    LET c == MapGet(m, id)
    IN  CASE c.state = "Ready" -> [ret |-> c.val, map |-> MapRemove(m, id)]
          [] c.state = "Waiting" ->
                [ret |-> 0, map |-> MapInsert(MapRemove(m, id), id, c)]
          [] OTHER -> [ret |-> 0, map |-> m]

\* Callbacks::call: `let (reinsert, success) = match callback {..}`
LegacyMatch(prev) ==
    IF prev.state = "Waiting"
      THEN [reinsert |-> KNone, success |-> TRUE]
      ELSE [reinsert |-> prev, success |-> FALSE]

\* Callbacks::call: `if let Some(t) = reinsert { .. map.insert(id, t) }`
LegacyReinsert(m, id, reinsert) ==
    IF reinsert # KNone THEN MapInsert(m, id, reinsert) ELSE m

KEntry(op, id, val, ret, f) ==
    [op |-> op, id |-> id, val |-> val, ret |-> ret, f |-> f]

KIdle == kstack = <<>> /\ Len(klog) < MaxKOps

\* Callbacks::create
legacy_create ==
    /\ UNCHANGED notK
    /\ KIdle
    /\ kcounter < MaxKIds
    /\ kcounter' = kcounter + 1
    /\ klog' = Append(klog, KEntry("create", kcounter, 0, TRUE, ""))
    /\ UNCHANGED <<kmap, kstack, kvals>>

\* Callbacks::register(id, f): `self.map.insert(id, Callback::Waiting(..))`
legacy_register ==
    /\ UNCHANGED notK
    /\ KIdle
    /\ \E id \in KCreated : \E f \in KListeners :
         /\ kmap' = MapInsert(kmap, id, Waiting(f))
         /\ klog' = Append(klog, KEntry("register", id, 0, TRUE, f))
    /\ UNCHANGED <<kcounter, kstack, kvals>>

\* Callbacks::get(id) from the main body
legacy_get ==
    /\ UNCHANGED notK
    /\ KIdle
    /\ \E id \in KCreated :
         LET r == LegacyGet(kmap, id)
         IN  /\ kmap' = r.map
             /\ klog' = Append(klog, KEntry("get", id, r.ret, r.ret # 0, ""))
    /\ UNCHANGED <<kcounter, kstack, kvals>>

\* Callbacks::call(global_self, id, t) up to the match: `lock()`,
\* `lock.map.insert(id, Callback::Ready(t))`, `drop(lock)`
legacy_call ==
    /\ UNCHANGED notK
    /\ KIdle
    /\ \E id \in KCreated :
         /\ kmap' = MapInsert(kmap, id, Ready(kvals + 1))
         /\ kstack' = <<[id |-> id, val |-> kvals + 1,
                         prev |-> MapGet(kmap, id),
                         pc |-> IF MapGet(kmap, id).state = "Waiting"
                                  THEN "f" ELSE "reinsert"]>>
    /\ kvals' = kvals + 1
    /\ UNCHANGED <<kcounter, klog>>

\* Callbacks::call: `Some(Callback::Waiting(mut f)) => { f(); .. }`, the
\* listener runs with the lock released
legacy_listener ==
    /\ UNCHANGED notK
    /\ kstack # <<>>
    /\ Top(kstack).pc = "f"
    /\ LET c == Top(kstack)
       IN  /\ IF c.prev.f = "get"
                THEN LET r == LegacyGet(kmap, c.id)
                     IN  /\ kmap' = r.map
                         /\ klog' = Append(klog,
                               KEntry("get", c.id, r.ret, r.ret # 0, "get"))
                ELSE UNCHANGED <<kmap, klog>>
           /\ kstack' = SetTop(kstack, [c EXCEPT !.pc = "reinsert"])
    /\ UNCHANGED <<kcounter, kvals>>

\* Callbacks::call: the re-insert of `reinsert` under a second lock, and
\* the return of `success`
legacy_call_finish ==
    /\ UNCHANGED notK
    /\ kstack # <<>>
    /\ Top(kstack).pc = "reinsert"
    /\ LET c == Top(kstack)
           r == LegacyMatch(c.prev)
       IN  /\ kmap' = LegacyReinsert(kmap, c.id, r.reinsert)
           /\ klog' = Append(klog,
                 KEntry("call", c.id, c.val, r.success, c.prev.f))
    /\ kstack' = PopF(kstack)
    /\ UNCHANGED <<kcounter, kvals>>

InitLegacy ==
    /\ kcounter = 0
    /\ kmap = [i \in {} |-> KNone]
    /\ kstack = <<>>
    /\ kvals = 0
    /\ klog = <<>>

NextLegacy ==
    \/ legacy_create
    \/ legacy_register
    \/ legacy_get
    \/ legacy_call
    \/ legacy_listener
    \/ legacy_call_finish

(***************************************************************************)
(* Part C. The byte codec of rust/stasis-internals/src/data.rs and the     *)
(* return path of outgoing::call, as functions on bytes: u32 arithmetic is *)
(* modulo 2^32, a byte is 0..255, a text is a sequence of characters. A    *)
(* run applies the functions, one after the other, to inputs drawn from    *)
(* sample sets. Pointers and lengths are those of wasm32 (usize is u32).   *)
(***************************************************************************)
RECURSIVE BitAnd(_, _)
\* `a & b` on unsigned integers
BitAnd(a, b) ==
    IF a = 0 \/ b = 0
      THEN 0
      ELSE (a % 2) * (b % 2) + 2 * BitAnd(a \div 2, b \div 2)

\* A u32 is kept as its two 16-bit halves, n = hi * 2^16 + lo (the integers
\* of the checker end at 2^31 - 1). A shift drops the bits that leave the
\* 32; the result of an addition keeps a hi of 2^16 or more when the sum
\* does not fit 32 bits (`+` on u32 panics in a debug build and wraps in a
\* release build).
U32(hi, lo) == [hi |-> hi, lo |-> lo]
Half == 2 ^ 16
Overflows(x) == x.hi >= Half
\* the wrapped value
Wrap(x) == U32(x.hi % Half, x.lo)

\* `a & mask`, `x >> k`, `x << k` (k in 0..31), `a + b` on u32
And32(a, mask) == U32(BitAnd(a.hi, mask.hi), BitAnd(a.lo, mask.lo))
Shr32(x, k) ==
    IF k >= 16
      THEN U32(0, x.hi \div (2 ^ (k - 16)))
      ELSE U32(x.hi \div (2 ^ k),
               (x.lo \div (2 ^ k)) + (x.hi % (2 ^ k)) * (2 ^ (16 - k)))
Shl32(x, k) ==
    IF k >= 16
      THEN U32((x.lo % (2 ^ (32 - k))) * (2 ^ (k - 16)), 0)
      ELSE U32((x.hi * (2 ^ k) + (x.lo \div (2 ^ (16 - k)))) % Half,
               (x.lo % (2 ^ (16 - k))) * (2 ^ k))
Add32(a, b) ==
    U32(a.hi + b.hi + ((a.lo + b.lo) \div Half), (a.lo + b.lo) % Half)

\* `x as u8` of a u32, `b as u32` of a u8, `p as u32` of a usize (wasm32)
AsU8(x) == x.lo % 256
ByteAsU32(b) == U32(0, b)
AsU32(x) == Wrap(x)

\* the masks 0xFF, 0xFF00, 0xFF0000, 0xFF000000
MaskByte0 == U32(0, 255)
MaskByte1 == U32(0, 65280)
MaskByte2 == U32(255, 0)
MaskByte3 == U32(65280, 0)

\* a failed `assert_eq!(ptr.len(), 4)`
AssertFailed ==
    [ok |-> FALSE, bytes |-> <<>>, n |-> U32(0, 0), sum |-> U32(0, 0)]

\* read_u32: the sum of the shifted bytes before and after wrapping
ReadSum(ptr) ==
    Add32(Add32(Add32(ByteAsU32(ptr[1]),
                      Shl32(ByteAsU32(ptr[2]), 8)),
                Shl32(ByteAsU32(ptr[3]), 16)),
          Shl32(ByteAsU32(ptr[4]), 24))
read_u32_big_endian(ptr) ==
    IF Len(ptr) # 4
      THEN AssertFailed
      ELSE [ok |-> TRUE, bytes |-> ptr, sum |-> U32(0, 0),
            n |-> U32(ptr[1] * 256 + ptr[2], ptr[3] * 256 + ptr[4])]
read_u32(ptr) ==
    IF Len(ptr) # 4
      THEN AssertFailed
      ELSE [ok |-> TRUE, bytes |-> ptr, sum |-> ReadSum(ptr),
            n |-> Wrap(ReadSum(ptr))]

\* write_u32: the slice after it
write_u32_no_top_byte(ptr, n) ==
    IF Len(ptr) # 4
      THEN AssertFailed
      ELSE [ok |-> TRUE, n |-> n, sum |-> U32(0, 0),
            bytes |-> <<AsU8(And32(n, MaskByte0)),
                        AsU8(Shr32(And32(n, MaskByte1), 8)),
                        AsU8(Shr32(And32(n, MaskByte2), 16)),
                        0>>]
write_u32(ptr, n) ==
    IF Len(ptr) # 4
      THEN AssertFailed
      ELSE [ok |-> TRUE, n |-> n, sum |-> U32(0, 0),
            bytes |-> <<AsU8(And32(n, MaskByte0)),
                        AsU8(Shr32(And32(n, MaskByte1), 8)),
                        AsU8(Shr32(And32(n, MaskByte2), 16)),
                        AsU8(Shr32(And32(n, MaskByte3), 24))>>]

\* a slice of len zero bytes
Zeros(len) == [i \in 1..len |-> 0]

\* impl Into<*mut u8> for Pair: the 8 bytes of the header
PairHeader(ptr, len) ==
    write_u32(Zeros(4), AsU32(ptr)).bytes
        \o write_u32(Zeros(4), AsU32(len)).bytes

\* Pair::from_u8_mut_ptr on the 8 bytes at src
from_u8_mut_ptr(bytes) ==
    [ptr |-> read_u32(SubSeq(bytes, 1, 4)).n,
     len |-> read_u32(SubSeq(bytes, 5, 8)).n]

\* ---- JSON texts (serde_json) ------------------------------------------

\* The values of the model, with their Rust types:
\*   unit  ()                   str   String
\*   bool  bool                 u32   u32
\*   opt   Option<u32>
CValue(ty, s, n, b) == [ty |-> ty, s |-> s, n |-> n, b |-> b]
CUnit == CValue("unit", <<>>, 0, FALSE)
CStr(s) == CValue("str", s, 0, FALSE)
CBool(b) == CValue("bool", <<>>, 0, b)
CNum(n) == CValue("u32", <<>>, n, FALSE)
CNoneU32 == CValue("opt", <<>>, 0, FALSE)
CSomeU32(n) == CValue("opt", <<>>, n, TRUE)
CPanic == CValue("panic", <<>>, 0, FALSE)

NullText == <<"n", "u", "l", "l">>
TrueText == <<"t", "r", "u", "e">>
FalseText == <<"f", "a", "l", "s", "e">>
DigitChars == <<"0", "1", "2", "3", "4", "5", "6", "7", "8", "9">>

RECURSIVE Digits(_)
\* the decimal text of n
Digits(n) ==
    IF n < 10
      THEN <<DigitChars[n + 1]>>
      ELSE Digits(n \div 10) \o <<DigitChars[(n % 10) + 1]>>

IsDigit(c) == \E d \in 1..10 : DigitChars[d] = c
DigitOf(c) == (CHOOSE d \in 1..10 : DigitChars[d] = c) - 1

RECURSIVE ParseDigits(_)
ParseDigits(t) ==
    IF Len(t) = 1
      THEN DigitOf(t[1])
      ELSE 10 * ParseDigits(SubSeq(t, 1, Len(t) - 1)) + DigitOf(t[Len(t)])

\* the text of a number (those of the model have at most 9 digits)
IsNumber(t) ==
    /\ t # <<>>
    /\ Len(t) <= 9
    /\ \A i \in 1..Len(t) : IsDigit(t[i])
    /\ Len(t) > 1 => t[1] # "0"

\* serde_json::to_string(&v)
CToJson(v) ==
    CASE v.ty = "unit" -> NullText
      [] v.ty = "str" -> <<"\"">> \o v.s \o <<"\"">>
      [] v.ty = "bool" -> IF v.b THEN TrueText ELSE FalseText
      [] v.ty = "u32" -> Digits(v.n)
      [] v.ty = "opt" -> IF v.b THEN Digits(v.n) ELSE NullText

\* serde_json::from_str::<R>(&text), R the type ty; an Err is the panic of
\* outgoing::call
CFromJson(ty, t) ==
    CASE ty = "unit" -> IF t = NullText THEN CUnit ELSE CPanic
      [] ty = "str" ->
            IF Len(t) >= 2 /\ t[1] = "\"" /\ t[Len(t)] = "\""
              THEN CStr(SubSeq(t, 2, Len(t) - 1))
              ELSE CPanic
      [] ty = "bool" ->
            IF t = TrueText THEN CBool(TRUE)
            ELSE IF t = FalseText THEN CBool(FALSE)
            ELSE CPanic
      [] ty = "u32" ->
            IF IsNumber(t) THEN CNum(ParseDigits(t)) ELSE CPanic
      [] ty = "opt" ->
            IF t = NullText THEN CNoneU32
            ELSE IF IsNumber(t) THEN CSomeU32(ParseDigits(t))
            ELSE CPanic

\* outgoing::call: the JSON text of `Call { id, name, args }` for module 0
\* and the function "f"
CallPrefix ==
    <<"{", "\"", "i", "d", "\"", ":", "0", ",",
      "\"", "n", "a", "m", "e", "\"", ":", "\"", "f", "\"", ",",
      "\"", "a", "r", "g", "s", "\"", ":">>
CallText(args) == CallPrefix \o CToJson(args) \o <<"}">>

\* the host function that returns its argument: the text of `args`
HostArgs(payload) == SubSeq(payload, Len(CallPrefix) + 1, Len(payload) - 1)

\* the host side of the return: JSON null is the null pointer; any other
\* text is written at address pay, its header at address hdr, and hdr is
\* returned. The heap as the guest finds it.
NullAddr == U32(0, 0)
NoHeap == [hdr |-> NullAddr, hbytes |-> <<>>, pay |-> NullAddr, text |-> <<>>]
HostReturn(text, hdr, pay) ==
    IF text = NullText
      THEN [ret |-> NullAddr, heap |-> NoHeap]
      ELSE [ret |-> hdr,
            heap |-> [hdr |-> hdr,
                      hbytes |-> PairHeader(pay, U32(0, Len(text))),
                      pay |-> pay, text |-> text]]

\* a read through a pointer that is not the address of what was written:
\* bytes that are no JSON text
WildText == <<"?">>

\* Pair::into_string: `String::from_raw_parts(self.ptr, self.len, self.len)`
into_string(pair, heap) ==
    IF pair.ptr = heap.pay /\ pair.len.hi = 0
                           /\ pair.len.lo <= Len(heap.text)
      THEN SubSeq(heap.text, 1, pair.len.lo)
      ELSE WildText

\* outgoing::call: `let value = if ret.is_null() { "null".to_owned() } else
\* { Pair::from_u8_mut_ptr(ret).into_string() }`
CallRetTextNoNull(ret, heap) ==
    IF ret = heap.hdr /\ Len(heap.hbytes) = 8
      THEN into_string(from_u8_mut_ptr(heap.hbytes), heap)
      ELSE WildText
CallRetText(ret, heap) ==
    IF ret = NullAddr
      THEN NullText
      ELSE IF ret = heap.hdr
             THEN into_string(from_u8_mut_ptr(heap.hbytes), heap)
             ELSE WildText

\* ---- the inputs and the run -------------------------------------------

\* u32 values: the ends of every byte, and a value with four different bytes
\* 0, 1, 0xFF, 0x100, 0xFFFF, 0x10000, 0x1000000, 0x12345678, 0x80000000,
\* 0xFFFFFFFF
U32Samples ==
    {U32(0, 0), U32(0, 1), U32(0, 255), U32(0, 256), U32(0, 65535),
     U32(1, 0), U32(256, 0), U32(4660, 22136), U32(32768, 0),
     U32(65535, 65535)}
LenSamples == {U32(0, 0), U32(0, 300), U32(65535, 65535)}
\* the addresses the host allocates at: 0x400, 0x12345678, 0xFFFFFFF0
HostAddrs == {U32(0, 1024), U32(4660, 22136), U32(65535, 65520)}
RoundTripValues ==
    {CUnit, CStr(<<>>), CStr(<<"a", "b", "c">>), CStr(NullText),
     CBool(TRUE), CBool(FALSE), CNum(0), CNum(305419896),
     CNoneU32, CSomeU32(7)}

CodecInputs ==
    [n : U32Samples, len : LenSamples, slice : 0..MaxSliceLen,
     val : RoundTripValues,
     hdr : HostAddrs, pay : HostAddrs]

\* no run of the codec
NoCodecInput ==
    [n |-> NullAddr, len |-> NullAddr, slice |-> 0, val |-> CPanic,
     hdr |-> NullAddr, pay |-> NullAddr]

NoCodecResult ==
    [w |-> AssertFailed, r |-> AssertFailed, hbytes |-> <<>>,
     pair |-> [ptr |-> NullAddr, len |-> NullAddr], payload |-> <<>>,
     ret |-> NullAddr, heap |-> NoHeap, out |-> CPanic]

\* write_u32(&mut slice, n) on a slice of cin.slice bytes
codec_write ==
    /\ UNCHANGED notC
    /\ cpc = "write"
    /\ cres' = [cres EXCEPT !.w = write_u32(Zeros(cin.slice), cin.n)]
    /\ cpc' = "read"
    /\ UNCHANGED cin

\* read_u32(&slice) on the slice as write_u32 left it
codec_read ==
    /\ UNCHANGED notC
    /\ cpc = "read"
    /\ cres' = [cres EXCEPT
                  !.r = read_u32(IF cres.w.ok THEN cres.w.bytes
                                              ELSE Zeros(cin.slice))]
    /\ cpc' = "into"
    /\ UNCHANGED cin

\* `Pair { ptr, len }.into()`: the header of the pair (cin.n, cin.len)
codec_pair_into ==
    /\ UNCHANGED notC
    /\ cpc = "into"
    /\ cres' = [cres EXCEPT !.hbytes = PairHeader(cin.n, cin.len)]
    /\ cpc' = "from"
    /\ UNCHANGED cin

\* Pair::from_u8_mut_ptr on that header
codec_pair_from ==
    /\ UNCHANGED notC
    /\ cpc = "from"
    /\ cres' = [cres EXCEPT !.pair = from_u8_mut_ptr(cres.hbytes)]
    /\ cpc' = "call"
    /\ UNCHANGED cin

\* outgoing::call(0, "f", v) up to `__stasis_call(opcode::CALL_FN, ..)`
codec_call ==
    /\ UNCHANGED notC
    /\ cpc = "call"
    /\ cres' = [cres EXCEPT !.payload = CallText(cin.val)]
    /\ cpc' = "host"
    /\ UNCHANGED cin

\* the host function returns its argument
codec_host ==
    /\ UNCHANGED notC
    /\ cpc = "host"
    /\ LET h == HostReturn(HostArgs(cres.payload), cin.hdr, cin.pay)
       IN  cres' = [cres EXCEPT !.ret = h.ret, !.heap = h.heap]
    /\ cpc' = "decode"
    /\ UNCHANGED cin

\* outgoing::call after the host returned: the text, and
\* `serde_json::from_str(&value)` at the type of the argument
codec_decode ==
    /\ UNCHANGED notC
    /\ cpc = "decode"
    /\ cres' = [cres EXCEPT
                  !.out = CFromJson(cin.val.ty,
                                    CallRetText(cres.ret, cres.heap))]
    /\ cpc' = "done"
    /\ UNCHANGED cin

InitCodec ==
    /\ cin \in CodecInputs \cup {NoCodecInput}
    /\ cin \in CodecInputs => cin.hdr # cin.pay
    /\ cpc = IF cin = NoCodecInput THEN "done" ELSE "write"
    /\ cres = NoCodecResult

NextCodec ==
    \/ codec_write
    \/ codec_read
    \/ codec_pair_into
    \/ codec_pair_from
    \/ codec_call
    \/ codec_host
    \/ codec_decode

InitGlobal ==
    /\ target \in {"wasm", "native"}
    /\ once = "INCOMPLETE"
    /\ inner = "None"
    /\ gvalue = 0
    /\ mlocked = FALSE
    /\ mpoisoned = FALSE
    /\ gpc = [t \in GThreadSet |-> "idle"]
    /\ ghold = [t \in GThreadSet |-> 0]
    /\ giter = [t \in GThreadSet |-> 0]
    /\ gtmp = [t \in GThreadSet |-> 0]
    /\ initRuns = 0

NextGlobal ==
    \E t \in GThreadSet :
        \/ lock(t)
        \/ call_once_done(t)
        \/ call_once_enter(t)
        \/ init_check(t)
        \/ init_assign(t)
        \/ once_complete(t)
        \/ clone_inner(t)
        \/ GlobalLock_new(t)
        \/ GlobalLock_new_recursive(t)
        \/ increment_read(t)
        \/ increment_write(t)
        \/ GlobalLock_drop(t)

NoRet == [name |-> "", arg |-> "", cb |-> -1, val |-> ""]

InitRegistry ==
    /\ registry \in Registries
    /\ hlock = 0
    /\ hpoisoned = FALSE
    /\ current = 0
    /\ registered = [i \in {} |-> ""]
    /\ rstack = [t \in RThreadSet |-> <<>>]
    /\ rops = 0
    /\ hostKnown = {}
    /\ issued = <<>>
    /\ rret = [t \in RThreadSet |-> NoRet]

\* one step of thread t
RStep(t) ==
    \/ Module_register_callback(t)
    \/ Module_call(t)
    \/ register(t)
    \/ register_callback_emit(t)
    \/ host_return(t)
    \/ host_dispatch(t)
    \/ call_return(t)
    \/ call(t)
    \/ closure_call(t)
    \/ closure_register(t)
    \/ closure_return(t)

NextRegistry == \E t \in RThreadSet : RStep(t)

\* the registry with a host that may also dispatch ids it was never given
NextRegistryAnyHost ==
    \E t \in RThreadSet : RStep(t) \/ host_dispatch_unknown(t)

InitQueue ==
    /\ qlock = 0
    /\ qcurrent = 0
    /\ qmap = [i \in {} |-> CallbackDefault]
    /\ qstack = [t \in QThreadSet |-> <<>>]
    /\ qops = 0
    /\ qnpush = 0
    /\ qnlisten = 0
    /\ qpushed = [i \in QIds |-> <<>>]
    /\ qpopped = [i \in QIds |-> <<>>]
    /\ qfired = <<>>
    /\ qhandled = [i \in QIds |-> <<>>]
    /\ qinstalled = <<>>

\* one step of thread t on the queue
QStep(t) ==
    \/ create(t)
    \/ listen(t)
    \/ on(t)
    \/ pop(t)
    \/ pop_listen(t)
    \/ push(t)
    \/ listener_log(t)
    \/ listener_pop(t)
    \/ listener_push(t)
    \/ listener_ret(t)
    \/ listener_pop_listen(t)
    \/ on_pop(t)
    \/ on_handler(t)
    \/ on_handler_push(t)
    \/ on_relisten(t)

NextQueue == \E t \in QThreadSet : QStep(t)

InitLazy ==
    /\ lzcurrent \in 0..MaxLazyBase
    /\ lazies = <<>>
    /\ lzmade = <<>>
    /\ lzcalls = <<>>
    /\ lzruns = <<>>
    /\ lzrets = <<>>

NextLazy == lazy \/ get_or_init

InitExecutor ==
    /\ eversion \in {"v01", "v02"}
    /\ plock = 0
    /\ pcounter = 0
    /\ futures = [i \in {} |-> NoTask]
    /\ estack = [t \in EThreadSet |-> <<>>]
    /\ eops = 0
    /\ espawned = <<>>
    /\ edone = {}
    /\ epolls = [i \in ETaskIds |-> 0]

\* one step of thread t in the executor
EStep(t) ==
    \/ spawn(t)
    \/ wake(t)
    \/ poll_remove(t)
    \/ task_result(t)
    \/ task_wake(t)
    \/ task_spawn(t)
    \/ task_resume(t)
    \/ poll_finish(t)
    \/ spawn_return(t)
    \/ drop_id(t)
    \/ wake_return(t)

NextExecutor == \E t \in EThreadSet : EStep(t)

InitScenario ==
    /\ spending \in 0..MaxPending
    /\ scb = 0
    /\ sfired = 0
    /\ sidle = 0

\* one step of the guest or of the host in the completion scenario
SStep(t) ==
    \/ s5_create(t)
    \/ s5_spawn(t)
    \/ s5_listen(t)
    \/ s5_tick(t)
    \/ poll_remove(t)
    \/ task_result(t)
    \/ poll_finish(t)
    \/ spawn_return(t)
    \/ drop_id(t)
    \/ wake_return(t)

NextScenario == \E t \in SThreadSet : SStep(t)

InitOutgoing ==
    /\ latch = FALSE
    /\ latchlock = 0
    /\ opc = [t \in OThreadSet |-> "idle"]
    /\ othen = [t \in OThreadSet |-> "new"]
    /\ modules = {}
    /\ nextmod = 0
    /\ otrace = <<>>
    /\ oops = 0
    /\ pronce = "INCOMPLETE"
    /\ prlock = 0
    /\ prmod = -1
    /\ prdepth = [t \in OThreadSet |-> 0]

\* one step of thread t on the outbound surface
OStep(t) ==
    \/ Module_new(t)
    \/ create_module_lock(t)
    \/ create_module_register(t)
    \/ create_module_drop(t)
    \/ create_module_emit(t)
    \/ outgoing_register_fn(t)
    \/ outgoing_register_callback(t)
    \/ outgoing_call(t)
    \/ prelude_fn(t)
    \/ prelude_default(t)
    \/ prelude_lock(t)
    \/ prelude_call(t)
    \/ prelude_dispatch(t)
    \/ prelude_return(t)

NextOutgoing == \E t \in OThreadSet : OStep(t)

InitMemory ==
    /\ mregions = <<>>
    /\ mstack = <<>>
    /\ mlast = [op |-> -1, ret |-> NullPtr, n |-> 0]
    /\ mfaults = {}
    /\ mdone = <<>>
    /\ mcalled = <<>>
    /\ mops = 0

NextMemory ==
    \/ incoming_alloc
    \/ incoming_dealloc
    \/ incoming_unknown
    \/ incoming_callback
    \/ closure_body
    \/ closure_call_fn
    \/ main_call_fn
    \/ main_register
    \/ host_call_return
    \/ call_fn_finish
    \/ closure_wrapper_return
    \/ callback_return

\* every part in its initial state
InitAll ==
    /\ InitGlobal
    /\ InitRegistry
    /\ InitQueue
    /\ InitLazy
    /\ InitExecutor
    /\ InitScenario
    /\ InitOutgoing
    /\ InitMemory
    /\ InitLegacy
    /\ InitCodec

\* the crates of rust/: the registry of stasis-internals
Init ==
    /\ registry = "stasis-internals"
    /\ cin = NoCodecInput
    /\ InitAll

InitG == Init /\ lzcurrent = 0 /\ eversion = "v02" /\ spending = 0

SpecGlobal == InitG /\ [][NextGlobal]_vars

\* The registry is studied with threads, i.e. on the native build.
InitR ==
    /\ Init
    /\ target = "native"
    /\ lzcurrent = 0
    /\ eversion = "v02"
    /\ spending = 0

\* LazyId is studied on its own.
InitL == Init /\ target = "native" /\ eversion = "v02" /\ spending = 0

\* The executors are studied with threads, i.e. on the native build.
InitE == Init /\ target = "native" /\ lzcurrent = 0 /\ spending = 0

SpecExecutor == InitE /\ [][NextExecutor]_vars

\* The completion scenario runs on the one thread of the wasm build, with
\* either executor. The host keeps delivering its ticks and every call into
\* the guest runs on: a step that stays possible is eventually taken.
InitS == Init /\ target = "wasm" /\ lzcurrent = 0

\* the executor with every thread that can take a step taking one
SpecExecutorFair ==
    SpecExecutor /\ \A t \in EThreadSet : WF_vars(EStep(t))

SpecScenario ==
    /\ InitS
    /\ [][NextScenario]_vars
    /\ \A t \in SThreadSet : WF_vars(SStep(t))

\* The outbound surface is studied with threads, i.e. on the native build.
SpecOutgoing == InitR /\ [][NextOutgoing]_vars

\* The regions are studied on the one thread of the wasm build.
InitM == InitS /\ eversion = "v02" /\ spending = 0

SpecMemory == InitM /\ [][NextMemory]_vars

SpecLazy == InitL /\ [][NextLazy]_vars

Spec == InitR /\ [][NextRegistry]_vars

SpecAnyHost == InitR /\ [][NextRegistryAnyHost]_vars

\* the registry of rust-stasis
InitRS ==
    /\ registry = "rust-stasis"
    /\ cin = NoCodecInput
    /\ InitAll
    /\ target = "native"
    /\ lzcurrent = 0
    /\ eversion = "v02"
    /\ spending = 0

SpecRustStasis == InitRS /\ [][NextRegistry]_vars

SpecLegacy == InitR /\ [][NextLegacy]_vars

\* the codec on every input of the sample sets, on wasm32
InitC ==
    /\ registry = "stasis-internals"
    /\ target = "wasm"
    /\ lzcurrent = 0
    /\ eversion = "v02"
    /\ spending = 0
    /\ InitAll
    /\ cin # NoCodecInput

SpecCodec == InitC /\ [][NextCodec]_vars

\* The queue is studied with threads, i.e. on the native build.
SpecQueue == InitR /\ [][NextQueue]_vars

\* A thread that can take a step eventually takes one (the host runs every
\* thread it provides, and a call it was handed returns).
SpecFair == Spec /\ \A t \in RThreadSet : WF_vars(RStep(t))

(***************************************************************************)
(* Claims about the Global cell (checked under SpecGlobal).                *)
(***************************************************************************)
GPastOnce(t) ==
    \/ gpc[t] \in {"clone", "mutex_lock", "held", "write", "drop",
                   "self_deadlock"}
    \/ ghold[t] > 0
    \/ giter[t] > 0

\* C3: under concurrent first callers of lock the default initializer runs
\* exactly once, and no caller gets past call_once (let alone obtains a
\* guard) before the initializer has completed.
C3_InitExactlyOnce ==
    /\ initRuns <= 1
    /\ \A t \in GThreadSet :
         GPastOnce(t) =>
           /\ initRuns = 1
           /\ once = "COMPLETE"
           /\ inner = "Some"

\* Two first callers raced: one owns the guard, the other has passed
\* call_once and waits for the mutex, neither has finished an iteration.
C3_Witness ==
    \E t, u \in GThreadSet :
        /\ t # u
        /\ ghold[t] = 1
        /\ gpc[u] = "mutex_lock"
        /\ \A w \in GThreadSet : giter[w] = 0

\* C4: when every thread has finished its MaxIter iterations of
\* lock / increment / drop, the value is MaxIter * GThreads.
C4_NoLostUpdates ==
    (\A t \in GThreadSet : gpc[t] = "idle" /\ giter[t] = MaxIter)
        => gvalue = MaxIter * GThreads

C4_Witness ==
    /\ \A t \in GThreadSet : gpc[t] = "idle" /\ giter[t] = MaxIter
    /\ gvalue = MaxIter * GThreads

GAtMostOneGuard == Cardinality({t \in GThreadSet : ghold[t] > 0}) <= 1

\* between the read and the write of a holder nobody else touched the value
GHolderUndisturbed ==
    \A t \in GThreadSet : gpc[t] = "write" => gvalue = gtmp[t]

\* a guard is obtained only in a state in which the mutex is free
GAcquireWhenFree ==
    \A t \in GThreadSet :
        (ghold[t] = 0 /\ ghold'[t] > 0) =>
            /\ ~mlocked
            /\ \A u \in GThreadSet : ghold[u] = 0

\* C5: at most one GlobalLock guard exists at any time, a guard is acquired
\* only once the previous one was dropped, and a holder's read-modify-write
\* is not interleaved with another thread's access.
C5_MutualExclusion ==
    /\ [](GAtMostOneGuard /\ GHolderUndisturbed)
    /\ [][GAcquireWhenFree]_vars

\* One thread is between its read and its write while another one waits in
\* GlobalLock::new for the mutex.
C5_Witness ==
    \E t, u \in GThreadSet :
        /\ t # u
        /\ gpc[t] = "write"
        /\ ghold[t] = 1
        /\ gpc[u] = "mutex_lock"
        /\ ghold[u] = 0

GRelockPanics ==
    \A t \in GThreadSet :
        (/\ target = "wasm"
         /\ gpc[t] = "mutex_lock"
         /\ ghold[t] > 0
         /\ gpc'[t] # gpc[t]) => gpc'[t] = "panicked"

RFrames(t) == {rstack[t][i] : i \in 1..Len(rstack[t])}

\* C1: while a closure invoked through internal_callbacks::call is running,
\* the call that invoked it no longer holds the HANDLER guard (and the
\* thread does not hold HANDLER through that call).
C1_NoGuardAcrossClosure ==
    \A t \in RThreadSet : \A i \in 1..Len(rstack[t]) :
        rstack[t][i].fn = "closure" =>
            /\ i > 1
            /\ rstack[t][i - 1].fn = "callback"
            /\ ~rstack[t][i - 1].guard
            /\ hlock # t

\* A closure invoked through call is running its body.
C1_Witness ==
    \E t \in RThreadSet : TopIs(t, "closure", "body")

RStuck(t) ==
    /\ rstack[t] # <<>>
    /\ Top(rstack[t]).pc \in {"self_deadlock", "panicked"}

\* what an outbound call that dispatched callback cb with argument a returns
RReflects(k, a, v) ==
    /\ k = "echo" => v = Upper(a)
    /\ k \in {"done", "registrar"} => v = "unit"
    /\ k = "relay" => v \in {Upper(a), "unit"}

C2_Safe ==
    /\ \A t \in RThreadSet : ~RStuck(t)
    /\ \A t \in RThreadSet : rstack[t] # <<>> => ENABLED RStep(t)
    /\ \A t \in RThreadSet :
         (rret[t].name = "run_echo" /\ rret[t].cb # -1) =>
             /\ rret[t].cb \in DOMAIN registered
             /\ RReflects(registered[rret[t].cb], rret[t].arg, rret[t].val)
    /\ \A t \in RThreadSet : \A f \in RFrames(t) :
         (f.fn = "closure" /\ f.kind = "echo" /\ f.pc = "ret") =>
             f.ret = Upper(f.arg)

\* C2: a callback closure that is dispatched during an outbound CALL_FN and
\* itself performs CALL_FN (or registers a callback) never meets a recursive
\* lock, every started operation returns, and the outer call returns the
\* result of the nested call.
C2_Reentrancy ==
    /\ []C2_Safe
    /\ \A t \in RThreadSet : (rstack[t] # <<>>) ~> (rstack[t] = <<>>)

\* run_echo dispatched echo, echo called uppercase, and the outer call has
\* returned "ABC" to the main body.
C2_Witness ==
    \E t \in RThreadSet :
        /\ rstack[t] = <<>>
        /\ rret[t].name = "run_echo"
        /\ rret[t].cb \in DOMAIN registered
        /\ registered[rret[t].cb] = "echo"
        /\ rret[t].arg = "abc"
        /\ rret[t].val = "ABC"

\* C7: the ids returned by register are 0, 1, 2, ... in the order of the
\* register calls (so each is greater than all before it, none twice).
C7_IdsCountUp ==
    /\ \A i \in 1..Len(issued) : issued[i] = i - 1
    /\ current = Len(issued)

C7_Witness ==
    /\ Len(issued) >= 2
    /\ issued[Len(issued)] = Len(issued) - 1

REntriesKept ==
    \A k \in DOMAIN registered :
        /\ k \in DOMAIN registered'
        /\ registered'[k] = registered[k]

\* C8: an issued id stays in the registry and keeps its closure, whatever
\* runs later (register, call, a register from inside a call).
C8_EntriesNeverChange ==
    /\ [](\A i \in 1..Len(issued) : issued[i] \in DOMAIN registered)
    /\ [][REntriesKept]_vars

\* A register ran from inside a call while an earlier id was in the map.
C8_Witness ==
    /\ Len(issued) >= 2
    /\ \E t \in RThreadSet :
         /\ TopIs(t, "closure", "ret")
         /\ Top(rstack[t]).kind = "registrar"
    /\ \A i \in 1..Len(issued) : issued[i] \in DOMAIN registered

\* C9: register_callback inserts the closure before it emits REGISTER_CB:
\* every id the host knows is in the registry, and an inbound CALLBACK for
\* such an id finds its closure (no "Failed to find callback" panic).
C9_HostIdsAreRegistered ==
    /\ hostKnown \subseteq DOMAIN registered
    /\ \A t \in RThreadSet : \A f \in RFrames(t) :
         /\ (f.fn = "register_callback" /\ f.pc = "emit")
               => f.id \in DOMAIN registered
         /\ f.fn = "callback" => f.id \in DOMAIN registered
         /\ f.fn = "callback" => f.pc # "panicked"

\* An inbound CALLBACK for an id the host was told found its closure.
C9_Witness ==
    \E t \in RThreadSet : \E f \in RFrames(t) :
        /\ f.fn = "callback"
        /\ f.pc = "wait"
        /\ f.id \in hostKnown
        /\ f.kind = registered[f.id]

(***************************************************************************)
(* Claims about the callback queue (checked under SpecQueue).              *)
(***************************************************************************)
IsPrefix(a, b) == Len(a) <= Len(b) /\ a = SubSeq(b, 1, Len(a))

\* C10: for every id the values returned by successful pops are, in order, a
\* prefix of the values pushed on the id: FIFO, none twice, none skipped.
C10_PopsArePrefixOfPushes ==
    \A id \in QIds : IsPrefix(qpopped[id], qpushed[id])

\* A value pushed before any listen was dropped: the first pop on the id
\* returned a later value.
C10_Witness ==
    \E id \in QIds :
        /\ Len(qpushed[id]) >= 2
        /\ qpopped[id] # <<>>
        /\ qpopped[id][1] # qpushed[id][1]

\* the FIFO and the armed listener of an id (an id without a map entry has
\* neither)
QStackIn(m, id) == IF id \in DOMAIN m THEN m[id].stack ELSE <<>>
QArmedIn(m, id) == IF id \in DOMAIN m THEN m[id].notify ELSE NoListener
QStackOf(id) == QStackIn(qmap, id)
QArmed(id) == QArmedIn(qmap, id)

\* the serials of the listeners installed on id, and the last of them
QInstalledOn(id) == {l \in 1..Len(qinstalled) : qinstalled[l].id = id}
QLatestOn(id) == CHOOSE l \in QInstalledOn(id) : \A k \in QInstalledOn(id) : k <= l

QHasFired(l) == \E i \in 1..Len(qfired) : qfired[i] = l

\* this step is a push on id
QPushOn(id) == qpushed'[id] # qpushed[id]

\* this step installs a listener
QInstalls == Len(qinstalled') = Len(qinstalled) + 1

QAllIdle == \A t \in QThreadSet : qstack[t] = <<>>

\* C11: a value pushed on an id on which listen (or pop_listen, or on) was
\* never called is stored: everything pushed on such an id is either
\* still in its FIFO or was returned by a pop.
C11_PushBeforeListenIsStored ==
    \A id \in QIds :
        QInstalledOn(id) = {} => qpushed[id] = qpopped[id] \o QStackOf(id)

\* A value was pushed on an id nobody listened on, and it is in no FIFO and
\* was returned by no pop.
C11_Witness ==
    \E id \in QIds :
        /\ QInstalledOn(id) = {}
        /\ qpushed[id] # <<>>
        /\ qpopped[id] = <<>>
        /\ QStackOf(id) = <<>>

QArmedNotFired ==
    \A id \in QIds : QArmed(id) # NoListener => ~QHasFired(QArmed(id).lid)

QPushConsumes ==
    \A id \in QIds :
        QPushOn(id) =>
            IF QArmed(id) = NoListener
              THEN qfired' = qfired
              ELSE /\ qfired' = Append(qfired, QArmed(id).lid)
                   /\ qmap'[id].notify = NoListener
                   /\ \E t \in QThreadSet :
                        /\ qstack'[t] # <<>>
                        /\ Top(qstack'[t]).lid = QArmed(id).lid
                        /\ Top(qstack'[t]).pc = "start"

\* C12: an armed listener has not been invoked yet; the first push on its id
\* takes it and invokes it, in the same step, and leaves no listener armed,
\* so that a further push on the id invokes nothing.
C12_PushConsumesListener ==
    /\ []QArmedNotFired
    /\ [][QPushConsumes]_vars

\* The only listener ever installed has fired once, and two pushes on its id
\* have been stored since it was installed.
C12_Witness ==
    \E id \in QIds :
        /\ qnlisten = 1
        /\ qinstalled[1].kind = "log"
        /\ qfired = <<1>>
        /\ Len(QStackOf(id)) >= 2

QFiredOnce ==
    \A i, j \in 1..Len(qfired) : qfired[i] = qfired[j] => i = j

\* a listener that is invoked is the last one installed on its id
QFiredIsLatest ==
    qfired' # qfired =>
        LET l == qfired'[Len(qfired')]
        IN  l = QLatestOn(qinstalled[l].id)

\* installing a listener arms it (whatever was armed before)
QInstallArms ==
    QInstalls =>
        LET l == Len(qinstalled')
        IN  QArmedIn(qmap', qinstalled'[l].id) = [kind |-> qinstalled'[l].kind,
                                          lid |-> l]

\* C13: a listen on an id replaces the listener armed on it, a replaced
\* listener is never invoked, and no listener is invoked twice.
C13_ListenReplaces ==
    /\ []QFiredOnce
    /\ [][QFiredIsLatest /\ QInstallArms]_vars

\* Listener 1 was replaced by listener 2 while it was armed, and the push
\* that followed invoked listener 2 only.
C13_Witness ==
    /\ Len(qinstalled) = 2
    /\ qinstalled[1].id = qinstalled[2].id
    /\ qfired = <<2>>

QFrames(t) == {qstack[t][i] : i \in 1..Len(qstack[t])}

QNoRelock ==
    \A t \in QThreadSet :
        /\ \A f \in QFrames(t) : f.pc \notin {"relock_panicked", "self_deadlock"}
        /\ qstack[t] # <<>> => qlock # t
        /\ (qstack[t] # <<>> /\ Top(qstack[t]).pc # "panicked")
               => ENABLED QStep(t)

\* the push that invokes a listener has stored its value and released the
\* lock
QPushThenInvoke ==
    \A id \in QIds :
        (QPushOn(id) /\ qfired' # qfired) =>
            /\ qlock' = 0
            /\ QStackIn(qmap', id) # <<>>
            /\ Top(QStackIn(qmap', id)) = qpushed'[id][Len(qpushed'[id])]

\* C14: push stores the value and takes the listener under the lock and
\* invokes the listener with the lock released: a running listener never
\* meets a recursive lock, it can always take its next step (pop, listen,
\* pop_listen or push on the queue), and the value that triggered it is in
\* the FIFO when it starts.
C14_ListenerRunsUnlocked ==
    /\ []QNoRelock
    /\ [][QPushThenInvoke]_vars

\* A pop listener has been invoked and the value whose push triggered it is
\* the head of the FIFO.
C14_Witness ==
    \E t \in QThreadSet :
        /\ QTopIs(t, "pop", "start")
        /\ QStackOf(Top(qstack[t]).id) = <<qnpush>>
        /\ qlock = 0

\* a pop_listen step arms its listener and returns the head of the FIFO as
\* it was before the step
QPopListenAtomic ==
    (QInstalls /\ qinstalled'[Len(qinstalled')].via = "pop_listen") =>
        LET l == Len(qinstalled')
            id == qinstalled'[l].id
        IN  /\ QArmedIn(qmap', id).lid = l
            /\ IF QStackOf(id) = <<>>
                 THEN /\ qpopped'[id] = qpopped[id]
                      /\ QStackIn(qmap', id) = <<>>
                 ELSE /\ qpopped'[id] = Append(qpopped[id], Head(QStackOf(id)))
                      /\ QStackIn(qmap', id) = Tail(QStackOf(id))

\* the listener of a pop_listen stays armed until a push invokes it or a
\* later listen replaces it
QPopListenStaysArmed ==
    \A id \in QIds :
        (/\ QInstalledOn(id) # {}
         /\ qinstalled[QLatestOn(id)].via = "pop_listen"
         /\ ~QHasFired(QLatestOn(id))) => QArmed(id).lid = QLatestOn(id)

\* a push on an id whose pop_listen listener is armed invokes that listener
QPushFiresPopListen ==
    \A id \in QIds :
        (/\ QPushOn(id)
         /\ QInstalledOn(id) # {}
         /\ qinstalled[QLatestOn(id)].via = "pop_listen"
         /\ ~QHasFired(QLatestOn(id)))
            => qfired' = Append(qfired, QLatestOn(id))

C16_OnAlwaysArmed ==
    \A id \in QIds :
        (\E l \in QInstalledOn(id) : qinstalled[l].via = "on")
            => QArmed(id) # NoListener

\* The handler of on(id, h) is running and no listener is armed on id.
C16_Witness ==
    \E t \in QThreadSet :
        /\ QTopIs(t, "on", "handler")
        /\ QArmed(Top(qstack[t]).id) = NoListener

IsSuffix(a, b) ==
    Len(a) <= Len(b) /\ a = SubSeq(b, Len(b) - Len(a) + 1, Len(b))

\* C17: with on(id, h) the only kind of listener ever installed on id and
\* every pop on id done by that listener, once every push has returned the
\* handler has received every value pushed since, in push order, and no
\* value waits in the FIFO.
C17_OnHandlesEveryPush ==
    \A id \in QIds :
        (/\ QInstalledOn(id) # {}
         /\ \A l \in QInstalledOn(id) : qinstalled[l].via = "on"
         /\ qpopped[id] = qhandled[id]
         /\ QAllIdle)
            => /\ QStackOf(id) = <<>>
               /\ IsSuffix(qhandled[id], qpushed[id])

\* Every push has returned, the handler has run and is armed again, and a
\* value pushed while it ran still waits in the FIFO.
C17_Witness ==
    \E id \in QIds :
        /\ QInstalledOn(id) # {}
        /\ \A l \in QInstalledOn(id) : qinstalled[l].via = "on"
        /\ qpopped[id] = qhandled[id]
        /\ qhandled[id] # <<>>
        /\ QAllIdle
        /\ QArmed(id) # NoListener
        /\ QStackOf(id) # <<>>

(***************************************************************************)
(* Claims about LazyId (checked under SpecLazy).                           *)
(***************************************************************************)
LzCallsOf(i) == {c \in 1..Len(lzcalls) : lzcalls[c].lz = i}
LzRunsOf(i) == {r \in 1..Len(lzruns) : lzruns[r].lz = i}
LzFirstCall(i) == CHOOSE c \in LzCallsOf(i) : \A d \in LzCallsOf(i) : c <= d

\* C18: the first get_or_init on a LazyId runs its setup, once, with the
\* wrapped id; no later call runs its setup; every call returns the id that
\* Callbacks::lazy wrapped.
C18_LazyIdInitOnce ==
    \A i \in 1..Len(lazies) :
        /\ lazies[i].id = lzmade[i]
        /\ Cardinality(LzRunsOf(i)) = IF LzCallsOf(i) = {} THEN 0 ELSE 1
        /\ \A r \in LzRunsOf(i) :
             /\ lzruns[r].call = LzFirstCall(i)
             /\ lzruns[r].setup = lzcalls[LzFirstCall(i)].setup
             /\ lzruns[r].arg = lzmade[i]
        /\ \A c \in LzCallsOf(i) : lzrets[c] = lzmade[i]
        /\ lazies[i].initialized = (LzCallsOf(i) # {})

\* A LazyId was asked three times, with different setups: only the first
\* setup ran.
C18_Witness ==
    \E i \in 1..Len(lazies) :
        /\ Cardinality(LzCallsOf(i)) = 3
        /\ lzcalls[1].setup # lzcalls[2].setup
        /\ Cardinality(LzRunsOf(i)) = 1

(***************************************************************************)
(* Claims about the task executor (checked under SpecExecutor).            *)
(***************************************************************************)
ESpawned(id) == \E i \in 1..Len(espawned) : espawned[i] = id

\* the activations of poll that have the task of id in hand
EInHand(id) ==
    {p \in UNION {{<<t, i>> : i \in 1..Len(estack[t])} : t \in EThreadSet} :
        LET t == p[1]
            i == p[2]
        IN
        /\ estack[t][i].fn = "poll"
        /\ estack[t][i].id = id
        /\ estack[t][i].pc \in {"drive", "wait", "ret", "match"}}

\* C19: in every state an id is a key of the pool exactly when its task was
\* spawned and has not completed with Ready or Err.
C19_PoolIffLive ==
    \A id \in ETaskIds :
        (id \in DOMAIN futures) <=> (ESpawned(id) /\ id \notin edone)

\* v01: a task that was spawned and has not completed is in no pool and in
\* no hand (the release of a wake handle removed it).
C19_Witness ==
    /\ eversion = "v01"
    /\ \E id \in ETaskIds :
         /\ ESpawned(id)
         /\ id \notin edone
         /\ id \notin DOMAIN futures
         /\ EInHand(id) = {}

EFrames(t) == {estack[t][i] : i \in 1..Len(estack[t])}

ENoRelock ==
    \A t \in EThreadSet :
        /\ \A f \in EFrames(t) : f.pc \notin {"relock_panicked", "self_deadlock"}
        /\ estack[t] # <<>> => plock # t
        /\ estack[t] # <<>> => ENABLED EStep(t)

\* a task is in at most one hand, and then it is not in the pool
EInHandOnce ==
    \A id \in ETaskIds :
        /\ Cardinality(EInHand(id)) <= 1
        /\ EInHand(id) # {} => id \notin DOMAIN futures

\* a poll(id) that starts while the task of id is in hand returns without
\* a progress step and without a change of the pool
ENestedPollReturns ==
    \A t \in EThreadSet :
        (/\ ETopIs(t, "poll", "remove")
         /\ EInHand(Top(estack[t]).id) # {}
         /\ estack'[t] # estack[t])
            => /\ estack'[t] = EReturn(estack[t])
               /\ futures' = futures
               /\ epolls' = epolls

\* C20: poll takes the task out of the pool under the lock and drives it
\* with the lock released: a wake for the same id, a spawn or a wake for
\* another id that arrives during the progress step meets no recursive
\* lock, the task is never driven twice at once, and the nested poll(id)
\* finds no task and returns.
C20_WakeDuringPollIsSafe ==
    /\ [](ENoRelock /\ EInHandOnce)
    /\ [][ENestedPollReturns]_vars

\* The progress step of a task invoked its own wake handle: poll(id) has
\* started inside the poll(id) that has the task in hand.
C20_Witness ==
    \E t \in EThreadSet :
        /\ Len(estack[t]) >= 2
        /\ ETopIs(t, "poll", "remove")
        /\ estack[t][Len(estack[t]) - 1].fn = "poll"
        /\ estack[t][Len(estack[t]) - 1].pc = "wait"
        /\ estack[t][Len(estack[t]) - 1].id = Top(estack[t]).id

\* the tasks whose first progress step returns Pending (NotReady) and whose
\* second returns Ready
EPendingThenReady == {"pending", "selfwake", "spawner"}

\* the task of id has returned Ready: it was dropped by poll, or the poll
\* that has it in hand holds the result Ready
EReadyReturned(id) ==
    \/ id \in edone
    \/ \E p \in EInHand(id) : estack[p[1]][p[2]].res = "Ready"

\* the outcome handling of poll for such a task: the first step is followed
\* by the re-insert, the second by the drop, which happens for an id that
\* was not dropped before and leaves the pool alone
EDiscardAfterSecond ==
    \A t \in EThreadSet :
        (/\ ETopIs(t, "poll", "match")
         /\ Top(estack[t]).task.kind \in EPendingThenReady
         /\ estack'[t] # estack[t])
            => LET f == Top(estack[t])
               IN  IF f.task.step = 1
                     THEN /\ f.res = "Pending"
                          /\ futures' = PollReinsert(futures, f.id, f.task)
                          /\ edone' = edone
                     ELSE /\ f.task.step = 2
                          /\ f.res = "Ready"
                          /\ f.id \notin edone
                          /\ edone' = edone \cup {f.id}
                          /\ futures' = futures

\* a task that was dropped is in no pool and in no hand
EDoneStaysOut ==
    \A id \in edone : id \notin DOMAIN futures /\ EInHand(id) = {}

\* a poll(id), or the release of a wake handle of id, for a task that has
\* returned Ready: it returns and nothing of the pool changes
EWakeAfterReady ==
    \A t \in EThreadSet :
        (/\ \/ ETopIs(t, "poll", "remove")
            \/ ETopIs(t, "wake", "ret")
         /\ EReadyReturned(Top(estack[t]).id)
         /\ estack'[t] # estack[t])
            => /\ estack'[t] = EReturn(estack[t])
               /\ futures' = futures
               /\ pcounter' = pcounter
               /\ plock' = plock
               /\ edone' = edone
               /\ epolls' = epolls

\* C21: a task whose first step returns Pending and whose second returns
\* Ready is dropped exactly once, after the second step, and is never
\* re-inserted; a wake for its id after it returned Ready finds no task and
\* changes nothing of the pool.
C21_DiscardedOnce ==
    /\ []EDoneStaysOut
    /\ [][EDiscardAfterSecond]_vars
    /\ [][EWakeAfterReady]_vars

\* A wake handle of a task that completed with its second step is invoked:
\* poll(id) is about to look for the task.
C21_Witness ==
    \E t \in EThreadSet :
        /\ Len(estack[t]) = 2
        /\ ETopIs(t, "poll", "remove")
        /\ estack[t][1].fn = "wake"
        /\ Top(estack[t]).id \in edone
        /\ epolls[Top(estack[t]).id] = 2

\* a step of spawn: a new id is recorded
ESpawns == Len(espawned') = Len(espawned) + 1

\* spawn: the id is fresh, the task is inserted under it, the lock is
\* released and poll(id) is called by spawn
ESpawnInsertsFresh ==
    \A t \in EThreadSet :
        (ESpawns /\ estack'[t] # estack[t])
            => LET id == espawned'[Len(espawned')]
                   n == Len(estack'[t])
               IN  /\ ~ESpawned(id)
                   /\ id \notin DOMAIN futures
                   /\ id \notin edone
                   /\ EInHand(id) = {}
                   /\ DOMAIN futures' = DOMAIN futures \cup {id}
                   /\ \A k \in DOMAIN futures : futures'[k] = futures[k]
                   /\ plock' = 0
                   /\ n >= 2
                   /\ estack'[t][n] = EFrame("poll", "remove", id)
                   /\ estack'[t][n - 1] = EFrame("spawn", "wait", id)

\* the first poll of a task is the poll called by its spawn: the frame
\* below the poll that takes the task is the spawn of the same id
EFirstPollInsideSpawn ==
    \A t \in EThreadSet : \A id \in ETaskIds :
        (/\ epolls[id] = 0
         /\ epolls'[id] = 1
         /\ estack'[t] # estack[t])
            => LET n == Len(estack[t])
               IN  /\ n >= 2
                   /\ estack[t][n].id = id
                   /\ estack[t][n - 1] = EFrame("spawn", "wait", id)

\* spawn returns only after its task had a progress step
ESpawnReturnsAfterPoll ==
    \A t \in EThreadSet : \A f \in EFrames(t) :
        (f.fn = "spawn" /\ f.pc = "ret")
            => epolls[f.id] >= 1

\* the progress steps that are waiting for a spawn they called
ESpawningSteps(t) ==
    {i \in 1..(Len(estack[t]) - 1) :
        /\ estack[t][i].fn = "poll"
        /\ estack[t][i].pc = "wait"
        /\ estack[t][i + 1].fn = "spawn"}

\* while a progress step waits for the spawn it called, the steps of that
\* spawn and of the poll inside it leave the spawning task as it is: its
\* frame keeps the task in hand, its id stays out of the pool, and the step
\* goes on only when the spawn has returned, after the first poll of the new
\* task
ESpawningStepKept ==
    \A t \in EThreadSet : \A i \in ESpawningSteps(t) :
        LET f == estack[t][i]
            c == estack[t][i + 1].id
        IN  estack'[t] # estack[t]
              => /\ Len(estack'[t]) >= i
                 /\ estack'[t][i].id = f.id
                 /\ estack'[t][i].task = f.task
                 /\ f.id \notin DOMAIN futures'
                 /\ f.id \notin edone'
                 /\ estack'[t][i].pc \in {"wait", "ret"}
                 /\ estack'[t][i].pc = "ret"
                      => /\ Len(estack'[t]) = i
                         /\ epolls[c] >= 1
                         /\ epolls[f.id] = epolls'[f.id]

\* the outcome handling of a task that spawned in its first step is the one
\* of a task that returned Pending: the re-insert of the task
ESpawnerOutcome ==
    \A t \in EThreadSet :
        (/\ ETopIs(t, "poll", "match")
         /\ Top(estack[t]).task.kind = "spawner"
         /\ Top(estack[t]).task.step = 1
         /\ estack'[t] # estack[t])
            => LET f == Top(estack[t])
               IN  /\ f.res = "Pending"
                   /\ futures' = PollReinsert(futures, f.id, f.task)
                   /\ estack'[t] = EReturn(estack[t])

\* C22: spawn inserts the task under a fresh id, releases the lock of the
\* pool and polls the task before it returns; a spawn called by a progress
\* step gives the new task its first poll inside the call, before the step
\* of the spawning task returns, and the outcome handling of the spawning
\* task is not affected.
C22_SpawnPollsImmediately ==
    /\ [](ENoRelock /\ ESpawnReturnsAfterPoll)
    /\ [][ESpawnInsertsFresh]_vars
    /\ [][EFirstPollInsideSpawn]_vars
    /\ [][ESpawningStepKept]_vars
    /\ [][ESpawnerOutcome]_vars

\* The task spawned by a progress step has completed in its first poll and
\* the spawn is about to return to the step, which still has its task in
\* hand.
C22_Witness ==
    \E t \in EThreadSet :
        /\ Len(estack[t]) >= 3
        /\ ETopIs(t, "spawn", "ret")
        /\ Top(estack[t]).id \in edone
        /\ estack[t][Len(estack[t]) - 1].fn = "poll"
        /\ estack[t][Len(estack[t]) - 1].pc = "wait"
        /\ estack[t][Len(estack[t]) - 1].task.kind = "spawner"

(***************************************************************************)
(* Claims about the completion scenario (checked under SpecScenario).      *)
(***************************************************************************)
\* the task of the scenario has completed: it returned Ready after at least
\* spending + 1 progress steps, the pushes that fired its listeners were
\* delivered, its id is not in the pool and no listener is armed on its
\* CallbackId
SCompleted ==
    /\ espawned # <<>>
    /\ LET id == espawned[1]
       IN  /\ id \in edone
           /\ id \notin DOMAIN futures
           /\ epolls[id] >= spending + 1
    /\ sfired >= spending
    /\ QArmed(scb) = NoListener

\* C23: the task that returns Pending N times, each time with a listener
\* installed that a host tick fires, and then Ready, eventually completes:
\* polled at least N + 1 times, out of the pool, no listener left armed.
C23_TaskCompletes == <>[]SCompleted

\* v01: the task is in no pool and in no hand, the guest is idle, and the
\* task has not returned Ready: the release of the wake handle of the first
\* listener removed it.
C23_Witness ==
    /\ eversion = "v01"
    /\ espawned # <<>>
    /\ espawned[1] \notin edone
    /\ espawned[1] \notin DOMAIN futures
    /\ \A t \in SThreadSet : estack[t] = <<>>
    /\ sfired >= 1

(***************************************************************************)
(* Claims about the outbound opcodes (checked under SpecOutgoing).         *)
(***************************************************************************)
\* the positions of opcode op in the trace of outbound calls
OCallsOf(op) == {i \in 1..Len(otrace) : otrace[i] = op}

\* C24: over any number of create_module calls, racing on several threads,
\* REGISTER_STASIS_CB is emitted at most once, it precedes every
\* CREATE_MODULE, and once a CREATE_MODULE was emitted it was emitted
\* exactly once.
C24_HandshakeOnce ==
    /\ Cardinality(OCallsOf(REGISTER_STASIS_CB)) <= 1
    /\ \A i \in OCallsOf(CREATE_MODULE) :
          \E j \in OCallsOf(REGISTER_STASIS_CB) : j < i
    /\ \A t \in OThreadSet :
          opc[t] \in {"cm_drop", "cm_create"}
             => Cardinality(OCallsOf(REGISTER_STASIS_CB)) = 1

\* Two threads are inside create_module at once, one of them past the
\* handshake and the other waiting for the latch, and a module was created
\* before.
C24_Witness ==
    /\ OCallsOf(CREATE_MODULE) # {}
    /\ \E t, u \in OThreadSet :
          /\ opc[t] = "cm_create"
          /\ opc[u] = "cm_lock"

\* C25: in every trace of outbound calls made through the Module handle and
\* the prelude the first call is REGISTER_STASIS_CB: every CREATE_MODULE,
\* REGISTER_FN, REGISTER_CB and CALL_FN comes after it.
C25_OpcodeZeroFirst ==
    \A i \in 1..Len(otrace) :
        otrace[i] \in {CREATE_MODULE, REGISTER_FN, REGISTER_CB, CALL_FN}
            => (i > 1 /\ otrace[1] = REGISTER_STASIS_CB)

\* The prelude was the first to call out (its Module::new made the
\* handshake), and a Module made later has been used for a call.
C25_Witness ==
    /\ Len(otrace) >= 9
    /\ prmod = 0
    /\ modules # {}
    /\ otrace[3] = REGISTER_FN
    /\ otrace[Len(otrace)] \in {REGISTER_FN, REGISTER_CB, CALL_FN}
    /\ otrace[Len(otrace) - 1] = CREATE_MODULE

(***************************************************************************)
(* Claims about the dispatcher and the regions (checked under SpecMemory). *)
(***************************************************************************)
\* a step in which an inbound call returns
MInboundReturns == mlast'.n = mlast.n + 1

\* C26: the dispatcher called with an opcode other than ALLOC, DEALLOC and
\* CALLBACK returns -1 cast to a pointer and changes nothing: no region is
\* allocated or freed, and the registry, the queues and the pool are as
\* before.
C26_UnknownOpcodeInert ==
    [][(MInboundReturns /\ mlast'.op \notin {ALLOC, DEALLOC, CALLBACK})
          => /\ mlast'.ret = MinusOnePtr
             /\ UNCHANGED <<mregions, mstack, mfaults, mdone, mcalled>>
             /\ UNCHANGED <<rvars, qvars, evars>>]_vars

\* The host has called the dispatcher with opcode 99 while the guest waits
\* inside a CALL_FN made by a closure, with live regions on both sides.
C26_Witness ==
    /\ mlast.op = 99
    /\ mlast.ret = MinusOnePtr
    /\ Len(mstack) = 2
    /\ MTopIs("call", "host")
    /\ \E p \in 1..Len(mregions) : mregions[p].live /\ mregions[p].owner = "host"
    /\ \E p \in 1..Len(mregions) : mregions[p].live /\ mregions[p].owner = "guest"

\* region p was freed by the guest exactly once, by nobody else, as the
\* buffer it was allocated as
MFreedOnceByGuest(p) ==
    /\ ~mregions[p].live
    /\ mregions[p].gfrees = 1
    /\ mregions[p].hfrees = 0
    /\ \A f \in mfaults : f.p # p

\* C27: for every inbound CALLBACK dispatch that has returned, the 12-byte
\* descriptor and the args payload it names were each freed by the guest
\* exactly once, also when the closure led to further CALLBACK dispatches.
C27_CallbackInputsFreedOnce ==
    /\ \A i \in 1..Len(mdone) :
          /\ mregions[mdone[i].desc].cap = TRI_LEN
          /\ mregions[mdone[i].desc].words[2] = mdone[i].args
          /\ MFreedOnceByGuest(mdone[i].desc)
          /\ MFreedOnceByGuest(mdone[i].args)
    /\ \A p \in 1..Len(mregions) : mregions[p].gfrees <= 1

\* A dispatch whose closure called the host, which dispatched a second
\* CALLBACK before it returned: both dispatches have returned, the inner one
\* first.
C27_Witness ==
    /\ Len(mdone) = 2
    /\ mdone[1].desc > mdone[2].desc
    /\ mstack = <<>>

\* the CALL_FN calls that have returned to their callers
MCalledOk ==
    \A i \in 1..Len(mcalled) :
        LET c == mcalled[i]
        IN  IF c.ret = NullPtr
              THEN c.value = FromJson("null")
              ELSE /\ mregions[c.ret].cap = PAIR_LEN
                   /\ mregions[c.ret].words[1] = c.payload
                   /\ c.payload # c.ret
                   /\ MFreedOnceByGuest(c.ret)
                   /\ MFreedOnceByGuest(c.payload)

\* a CALL_FN that returns after the host returned the null pointer frees
\* nothing
MNullReturnFreesNothing ==
    (/\ Len(mcalled') = Len(mcalled) + 1
     /\ mcalled'[Len(mcalled')].ret = NullPtr)
        => mregions' = mregions /\ mfaults' = mfaults

\* C28: when the host return of a CALL_FN is a non-null pointer, the guest
\* has freed the 8-byte header once and the payload it names once by the
\* time call returns; when it is the null pointer the guest frees nothing
\* and decodes the JSON literal null.
C28_CallReturnFreedOnce ==
    /\ []MCalledOk
    /\ [][MNullReturnFreesNothing]_vars

\* Two CALL_FN calls have returned, one with a header from the host and one
\* with the null pointer.
C28_Witness ==
    /\ Len(mcalled) = 2
    /\ \E i, j \in 1..2 :
          /\ mcalled[i].ret # NullPtr
          /\ mcalled[i].value = "abc"
          /\ mcalled[j].ret = NullPtr

\* the payloads of the outbound calls REGISTER_FN, REGISTER_CB and CALL_FN
MOutbound == {p \in 1..Len(mregions) : mregions[p].role = "out"}

\* C29: the payload of every outbound REGISTER_FN, REGISTER_CB and CALL_FN
\* has capacity equal to its length when it is released to the host, so
\* that the DEALLOC(ptr, len) of the host frees the region as it was
\* allocated; the guest never frees it.
C29_PayloadCapacityIsLength ==
    \A p \in MOutbound :
        /\ mregions[p].cap = mregions[p].len
        /\ mregions[p].owner = "host"
        /\ mregions[p].gfrees = 0
        /\ mregions[p].hfrees <= 1
        /\ mregions[p].live <=> mregions[p].hfrees = 0
        /\ \A f \in mfaults : f.p # p

\* The host has freed the payload of a registration with DEALLOC while the
\* payload of a CALL_FN that is in progress is still live.
C29_Witness ==
    /\ MTopIs("call", "host")
    /\ mregions[Top(mstack).a].live
    /\ \E p \in MOutbound : ~mregions[p].live /\ mregions[p].hfrees = 1

\* the return of a CALLBACK dispatch: for the result text null the null
\* pointer and no new region; otherwise two new regions, the payload with
\* the text and the 8-byte header with (ptr, len) of the payload, both
\* released to the host, and the address of the header
MCallbackResult ==
    Len(mdone') = Len(mdone) + 1
      => LET d == mdone'[Len(mdone')]
             payload == Len(mregions) + 1
             header == Len(mregions) + 2
         IN  /\ mlast'.op = CALLBACK
             /\ mlast'.ret = d.ret
             /\ IF d.out = "null"
                  THEN /\ d.ret = NullPtr
                       /\ Len(mregions') = Len(mregions)
                  ELSE /\ d.ret = header
                       /\ Len(mregions') = header
                       /\ mregions'[payload].len = Len(d.out)
                       /\ mregions'[payload].cap = Len(d.out)
                       /\ mregions'[header].cap = PAIR_LEN
                       /\ mregions'[header].words = <<payload, Len(d.out)>>
                       /\ \A p \in {payload, header} :
                             /\ mregions'[p].live
                             /\ mregions'[p].owner = "host"

\* C30: when the JSON result of the closure is exactly the text null the
\* dispatcher returns the null pointer and allocates no header and no
\* payload; for every other result it allocates a fresh payload and a fresh
\* 8-byte header holding (ptr, len) of it and returns the address of the
\* header, both owned by the host.
C30_CallbackResultPointer == [][MCallbackResult]_vars

\* Two dispatches have returned, one with the null pointer for a closure
\* that returned unit and one with a header.
C30_Witness ==
    /\ Len(mdone) = 2
    /\ \E i, j \in 1..2 :
          /\ mdone[i].out = "null"
          /\ mdone[i].ret = NullPtr
          /\ mdone[j].out = ToJson("ABC")
          /\ mdone[j].ret # NullPtr

(***************************************************************************)
(* Claims about the wake handles of the executor (checked under            *)
(* SpecExecutor and SpecExecutorFair).                                     *)
(***************************************************************************)
\* thread t is at the `POOL.lock().futures.remove(&id)` of poll(id)
EPollTakes(t, id) ==
    /\ ETopIs(t, "poll", "remove")
    /\ Top(estack[t]).id = id

\* an id leaves the pool only when a poll takes its task in hand
EOnlyPollRemoves ==
    \A id \in DOMAIN futures :
        id \notin DOMAIN futures'
            => \E t \in EThreadSet :
                  /\ EPollTakes(t, id)
                  /\ epolls'[id] = epolls[id] + 1
                  /\ estack'[t] # estack[t]

\* C37: in the v01 executor a task that returned NotReady and was
\* re-inserted stays in the pool until a later poll takes it: no other
\* event, in particular the release of a wake handle (drop_id), removes a
\* pending task from the pool.
C37_PendingStaysInPool == [][eversion = "v01" => EOnlyPollRemoves]_vars

\* v01: a wake handle of a pending task that is in the pool is about to be
\* released.
C37_Witness ==
    /\ eversion = "v01"
    /\ \E t \in EThreadSet :
         /\ ETopIs(t, "wake", "ret")
         /\ Top(estack[t]).id \in DOMAIN futures
         /\ futures[Top(estack[t]).id].step >= 1

\* the task of id has returned its final outcome (Ready, or Err in v01): it
\* was dropped by poll, or the poll that has it in hand holds that outcome
ECompleted(id) ==
    \/ id \in edone
    \/ \E p \in EInHand(id) : estack[p[1]][p[2]].res \in {"Ready", "Err"}

\* a wake for id is delivered while its task has made n progress steps and
\* has not completed: a poll(id) called by a wake handle (from a listener, or
\* from the progress step of the task itself) is about to look for the task
EWakeDelivered(id, n) ==
    /\ ESpawned(id)
    /\ ~ECompleted(id)
    /\ epolls[id] = n
    /\ \E t \in EThreadSet :
         /\ EPollTakes(t, id)
         /\ Len(estack[t]) >= 2
         /\ estack[t][Len(estack[t]) - 1].fn \in {"wake", "poll"}

\* the numbers of progress steps a task of the model can have made
EStepCounts == 0..(MaxEOps + 1)

\* C36: no wake-up is lost: every wake delivered for the id of a task that
\* has not completed, also one delivered while the task is in hand, is
\* followed by a further progress step of the task (or by its completion).
C36_NoLostWakeup ==
    \A id \in ETaskIds : \A n \in EStepCounts :
        EWakeDelivered(id, n) ~> (epolls[id] > n \/ id \in edone)

\* The progress step of a task invoked its own wake handle, the poll(id) it
\* started found no task and returned, and the step returned Pending: the
\* task is back in the pool after one step and every thread is idle.
C36_Witness ==
    \E id \in DOMAIN futures :
        /\ futures[id].kind = "selfwake"
        /\ epolls[id] = 1
        /\ \A t \in EThreadSet : estack[t] = <<>>

(***************************************************************************)
(* Claims about the listener of Callbacks::on (checked under SpecQueue).   *)
(***************************************************************************)
\* C38: the listener that on(id, h) installs always finds a value when it
\* fires: in every interleaving of push, pop, pop_listen and listen on the
\* id, the `guard.pop(id)` inside the listener returns Some and its unwrap
\* does not fail.
C38_OnListenerFindsValue ==
    \A t \in QThreadSet : \A f \in QFrames(t) :
        f.kind = "on" => f.pc # "panicked"

\* The listener of on was taken by a push and has not locked the queue yet,
\* and the queue of its id is empty: the value of the push was popped
\* between the release of the lock by push and the listener's own lock.
C38_Witness ==
    \E t \in QThreadSet :
        /\ QTopIs(t, "on", "start")
        /\ qlock = 0
        /\ ~InnerPop(qmap, Top(qstack[t]).id).some

(***************************************************************************)
(* Claims about the prelude (checked under SpecOutgoing).                  *)
(***************************************************************************)
\* C39: the prelude wrappers do not hold the PRELUDE lock during their
\* CALL_FN: a guest callback dispatched by the host while such a call is in
\* flight, or the panic hook running at that moment, calls console::log or
\* console::error without a recursive lock on PRELUDE.
C39_NoRecursivePreludeLock ==
    \A t \in OThreadSet :
        /\ opc[t] = "pr_wait" => prlock # t
        /\ opc[t] = "pr_lock" => prlock # t
        /\ opc[t] \notin {"relock_panicked", "self_deadlock"}

\* A callback dispatched during the CALL_FN of a prelude wrapper has called
\* console::log, or has panicked with the hook calling console::error: the
\* thread is at `PRELUDE.lock()` with a prelude call of its own in flight.
C39_Witness ==
    \E t \in OThreadSet :
        /\ opc[t] = "pr_lock"
        /\ prdepth[t] >= 1
        /\ othen[t] \in PreludeClosures

(***************************************************************************)
(* Claims about a dispatch of an unknown id (checked under SpecAnyHost).   *)
(***************************************************************************)
RIssued(id) == \E i \in 1..Len(issued) : issued[i] = id

\* thread t is at internal_callbacks::call with an id register never issued
RCallsUnknown(t) ==
    /\ TopIs(t, "callback", "call")
    /\ ~RIssued(Top(rstack[t]).id)

\* such a call ends the thread in a panic, with no closure started and the
\* counter and the map of the registry as they were
RUnknownPanics ==
    \A t \in RThreadSet :
        (RCallsUnknown(t) /\ rstack'[t] # rstack[t])
            => /\ rstack'[t] = SetTop(rstack[t],
                                 [Top(rstack[t]) EXCEPT !.pc = "panicked"])
               /\ current' = current
               /\ registered' = registered

\* C33: internal_callbacks::call with an id that register never issued ends
\* in a fatal error: no closure is invoked, and the counter and the map of
\* the registry are the same as before the call.
C33_UnknownIdIsFatal == [][RUnknownPanics]_vars

\* The call with an id that was never issued has panicked, in a registry
\* that holds a closure.
C33_Witness ==
    \E t \in RThreadSet :
        /\ rstack[t] # <<>>
        /\ Top(rstack[t]).fn = "callback"
        /\ Top(rstack[t]).pc = "panicked"
        /\ ~RIssued(Top(rstack[t]).id)
        /\ current >= 1

(***************************************************************************)
(* Claims about the registry of rust-stasis (checked under SpecRustStasis).*)
(***************************************************************************)
\* C35: in the registry of rust-stasis, call does not hold the HANDLER lock
\* while the registered closure runs: a closure that causes a nested call or
\* a register finds HANDLER free of its own thread, and no thread ends in a
\* recursive lock on HANDLER.
C35_RustStasisCallUnlocked ==
    \A t \in RThreadSet :
        /\ \A i \in 1..Len(rstack[t]) :
              rstack[t][i].fn = "closure" => hlock # t
        /\ ~RStuck(t)

\* A closure invoked through the call of rust-stasis has called register, or
\* has made a CALL_FN during which the host dispatched a callback: the
\* thread is about to lock HANDLER inside its own closure.
C35_Witness ==
    /\ registry = "rust-stasis"
    /\ \E t \in RThreadSet :
         /\ Len(rstack[t]) >= 3
         /\ \/ TopIs(t, "register_callback", "register")
            \/ TopIs(t, "callback", "call")
         /\ \E i \in 1..Len(rstack[t]) : rstack[t][i].fn = "closure"

(***************************************************************************)
(* Claims about the callback manager of rust/src/callbacks.rs (checked     *)
(* under SpecLegacy).                                                      *)
(***************************************************************************)
\* entry i of the log is a Callbacks::call that returned
KIsCall(i) == klog[i].op = "call"

\* a Callbacks::call on the id of entry i returned before entry i
KCalledBefore(i) ==
    \E j \in 1..(i - 1) : KIsCall(j) /\ klog[j].id = klog[i].id

\* a listener registered on the id of entry i is waiting when the call of
\* entry i starts: a register on the id came before it, with no call on the
\* id between the two
KListenerWaiting(i) ==
    \E j \in 1..(i - 1) :
        /\ klog[j].op = "register"
        /\ klog[j].id = klog[i].id
        /\ \A k \in (j + 1)..(i - 1) :
              ~(KIsCall(k) /\ klog[k].id = klog[i].id)

KLastOn(i) ==
    \A j \in (i + 1)..Len(klog) :
        klog[j].id # klog[i].id \/ klog[j].op = "create"

\* the values the gets have returned are pairwise different
KGetsAtMostOnce ==
    \A i, j \in 1..Len(klog) :
        (/\ i < j
         /\ klog[i].op = "get" /\ klog[j].op = "get"
         /\ klog[i].val # 0)
            => klog[i].val # klog[j].val

\* C40: Callbacks::call(id, t) assigns the value: once it has returned, with
\* no get or register on id since and a fired listener that did not consume
\* the value, the next get(id) returns t, also when id held an un-retrieved
\* value of an earlier call; and get returns each assigned value at most
\* once.
C40_CallAssignsValue ==
    /\ kstack = <<>> =>
         \A i \in 1..Len(klog) :
            (KIsCall(i) /\ KLastOn(i) /\ klog[i].f # "get")
                => LegacyGet(kmap, klog[i].id).ret = klog[i].val
    /\ KGetsAtMostOnce

\* A second call on an id has returned while the value of the first was
\* still un-retrieved.
C40_Witness ==
    /\ kstack = <<>>
    /\ \E i \in 2..Len(klog) :
         /\ KIsCall(i) /\ KIsCall(i - 1)
         /\ klog[i].id = klog[i - 1].id
         /\ KLastOn(i)

(***************************************************************************)
(* Claims about the byte codec and the round trip (checked under           *)
(* SpecCodec).                                                             *)
(***************************************************************************)
\* the steps of a run, in order, and the steps that are done
CSteps == <<"write", "read", "into", "from", "call", "host", "decode", "done">>
CStage == CHOOSE i \in 1..Len(CSteps) : CSteps[i] = cpc
CDone(step) == CStage > (CHOOSE i \in 1..Len(CSteps) : CSteps[i] = step)

\* the four little-endian bytes of n
LittleEndian(n) ==
    <<n.lo % 256, n.lo \div 256, n.hi % 256, n.hi \div 256>>

\* write_u32 has run: on a slice of 4 bytes it stored the little-endian
\* bytes of n, on any other slice the assertion failed
CWriteOk ==
    CDone("write") =>
        IF cin.slice = 4
          THEN cres.w.ok /\ cres.w.bytes = LittleEndian(cin.n)
          ELSE ~cres.w.ok

\* read_u32 has run: on the 4 bytes written it returned n, and the sum of
\* the shifted bytes fitted 32 bits; on any other slice the assertion failed
CReadOk ==
    CDone("read") =>
        IF cin.slice = 4
          THEN /\ cres.r.ok
               /\ cres.r.n = cin.n
               /\ ~Overflows(cres.r.sum)
          ELSE ~cres.r.ok

\* the header of (ptr, len) is 8 bytes, ptr first, both little-endian, and
\* from_u8_mut_ptr reads the same (ptr, len) back
CPairOk ==
    /\ CDone("into") =>
          cres.hbytes = LittleEndian(cin.n) \o LittleEndian(cin.len)
    /\ CDone("from") => cres.pair = [ptr |-> cin.n, len |-> cin.len]

\* C32: for every u32 n write_u32 stores the four little-endian bytes of n
\* and read_u32 of those bytes returns n, the sum of the shifted bytes never
\* exceeding 2^32 - 1; a fat pointer (ptr, len) written as an 8-byte header
\* and read back by from_u8_mut_ptr is the same (ptr, len); read_u32 and
\* write_u32 fail by assertion on a slice whose length is not 4.
C32_ByteCodec == CWriteOk /\ CReadOk /\ CPairOk

\* The pair (0x12345678, 0xFFFFFFFF) went through its header and back, after
\* write_u32 and read_u32 ran on a slice of 4 bytes.
C32_Witness ==
    /\ CDone("from")
    /\ cin.slice = 4
    /\ cin.n = U32(4660, 22136)
    /\ cin.len = U32(65535, 65535)
    /\ cres.w.bytes = <<120, 86, 52, 18>>

\* write_u32 and read_u32 ran on a slice of 3 bytes, and on one of 5.
C32_WitnessAssert ==
    /\ CDone("read")
    /\ cin.slice \in {3, 5}
    /\ ~cres.w.ok
    /\ ~cres.r.ok


\* the host conveyed the returned text as the null pointer exactly when the
\* text is the literal null
CNullOutOfBand ==
    CDone("host") =>
        ((cres.ret = NullAddr) <=> (CToJson(cin.val) = NullText))

\* C31: round trip through CALL_FN. For every value v of RoundTripValues,
\* when the host function returns its argument unchanged, conveying JSON
\* null as the null pointer and every other text as a header plus payload,
\* the call returns a value equal to v.
C31_RoundTrip ==
    /\ CNullOutOfBand
    /\ CDone("decode") => cres.out = cin.val

\* The string "null" went out as the text "null" in quotes and came back as
\* a header at 0xFFFFFFF0 plus payload.
C31_Witness ==
    /\ CDone("decode")
    /\ cin.val = CStr(NullText)
    /\ cres.ret = U32(65535, 65520)
    /\ cres.heap.text = <<"\"">> \o NullText \o <<"\"">>
    /\ cres.out = CStr(NullText)

\* None and () went out as the text null and came back as the null pointer.
C31_WitnessNull ==
    /\ CDone("decode")
    /\ cin.val \in {CNoneU32, CUnit}
    /\ cres.ret = NullAddr
    /\ cres.out = cin.val

====
